---- MODULE Spec2Model ----
(***************************************************************************)
(* A model of the index-enabled World of uecs (src/unnamed/part_000,       *)
(* lines 424-1392) with its IndexBase and the trie of type sets            *)
(* (src/src/trie.ts).                                                      *)
(*                                                                         *)
(* JavaScript arrays are 0-based: offsets and indexes keep the values the  *)
(* code gives them, and the sequence holding an array is read at i + 1.    *)
(***************************************************************************)
EXTENDS Integers, Sequences, FiniteSets, TLC

\* ------------------------------------------------------------------ bounds

\* create is called only while entitySequence < MaxSeq; insert takes ids below MaxSeq.
MaxSeq == 2
\* Number of components passed to one create / insert call.
MaxArgs == 2
\* Number of public World calls in one run.
MaxOps == 3
\* index() hands out a further iterator only while the versions are below MaxVer.
MaxVer == 2
\* Number of public calls in one run of WalkSpec, where iterators are walked.
MaxWalkOps == 6
\* Number of iterators the caller of index() holds in WalkSpec.
MaxIts == 2
\* Length of the keys set in the trie of TrieSpec, and number of keys set.
MaxKeyLen == 2
MaxKeys == 3
\* reset calls on the iterator, and values one walk of it may yield.
MaxResets == 2
MaxYields == 8
\* Number.MAX_SAFE_INTEGER, which is 2^53 - 1, scaled down: the IdPool
\* compares ids with it and does no other arithmetic on it.
MAX_SAFE_INTEGER == 5
\* Number of calls made on the IdPool of PoolSpec, on the SparseSet of
\* SetSpec, and on the World of ViewSpec.
MaxPoolOps == 6
\* Number of intervals of the free list of the IdPool: release is not called
\* on a list that has as many.
MaxIntervals == 4
MaxSetOps == 4
\* Number of public calls on the World of the IdPool/SparseSet variant, and
\* the largest entity id they are made with.
MaxOldOps == 4
MaxOldId == 3
MaxViewOps == 4

\* ------------------------------------------------------------- the universe

singletonEntity == -2

\* Entity ids the calls are made with.
EntityIds == {singletonEntity} \cup (0 .. (MaxSeq - 1))

\* Component type names (constructor.name), with their order under the
\* default Array.prototype.sort / the < of strings.
Types == {"A", "B"}
\* The names of the classes of the program: the types of the components it
\* makes, and a class named AB it has no instance of.
ClassNames == Types \cup {"AB"}
TypeRank(t) == IF t = "A" THEN 1 ELSE IF t = "B" THEN 2 ELSE 3

\* A component instance: its class name, its identity, and whether it has a
\* free property ("function") or not ("undefined").
Comp(t, i, f) == [type |-> t, id |-> i, free |-> f]
Comps == { Comp("A", 1, "undefined"), Comp("A", 2, "function"), Comp("B", 1, "function") }

\* What a free hook, which is user code, does when it is called: it returns,
\* it throws, or it calls world.destroy(target) and returns.
Outcome(d, t) == [do |-> d, target |-> t]
FreeOutcomes ==
  {Outcome("return", -1), Outcome("throw", -1)}
    \cup { Outcome("destroy", e) : e \in EntityIds }

\* The value undefined where a component is expected.
Undefined == Comp("undefined", 0, "undefined")

\* ---------------------------------------------------------- array helpers

\* arr[i] = v of a JavaScript array: writing at arr.length appends.
SetAt(arr, i, v) ==
  IF i < Len(arr) THEN [arr EXCEPT ![i + 1] = v] ELSE Append(arr, v)

\* arr.length = n: truncates, or extends with holes.
SetLength(arr, n, hole) ==
  [i \in 1 .. n |-> IF i <= Len(arr) THEN arr[i] ELSE hole]

RECURSIVE InsertSorted(_, _)
InsertSorted(t, s) ==
  IF s = <<>> THEN <<t>>
  ELSE IF TypeRank(t) < TypeRank(Head(s)) THEN <<t>> \o s
  ELSE <<Head(s)>> \o InsertSorted(t, Tail(s))

\* Array.prototype.sort() on type names.
RECURSIVE SortTypes(_)
SortTypes(s) ==
  IF s = <<>> THEN <<>> ELSE InsertSorted(Head(s), SortTypes(Tail(s)))

Range(s) == { s[i] : i \in 1 .. Len(s) }

\* Set.prototype.delete / add on the insertion-ordered live set.
RECURSIVE SeqDelete(_, _)
SeqDelete(s, e) ==
  IF s = <<>> THEN <<>>
  ELSE IF Head(s) = e THEN Tail(s)
  ELSE <<Head(s)>> \o SeqDelete(Tail(s), e)

SetAdd(s, e) == IF e \in Range(s) THEN s ELSE Append(s, e)

\* ---------------------------------------------------------------- IndexBase

\* One slot of IndexBase.storage: undefined, an entity, or a component.
UndefSlot == [k |-> "u", e |-> 0, c |-> Undefined]
EntSlot(e) == [k |-> "e", e |-> e, c |-> Undefined]
CompSlot(c) == IF c = Undefined THEN UndefSlot ELSE [k |-> "c", e |-> 0, c |-> c]

\* entityISByEntity.get(entity) === undefined
NoIS == -1

\* new IndexBase(types). adds and removes are not fields of the code: they
\* count the add calls made and the remove calls that removed a record.
NewIndexBase(types) ==
  [ types |-> types,
    entityISByEntity |-> [e \in EntityIds |-> NoIS],
    storage |-> <<>>,
    freeISs |-> <<>>,
    addVer |-> 0, addVerObserved |-> TRUE,
    remVer |-> 0, remVerObserved |-> TRUE,
    adds |-> 0, removes |-> 0 ]

RECURSIVE WriteComps(_, _, _, _)
WriteComps(storage, iS, comps, iC) ==
  IF iC >= Len(comps) THEN storage
  ELSE WriteComps(SetAt(storage, iS + iC + 1, CompSlot(comps[iC + 1])), iS, comps, iC + 1)

\* IndexBase.add with a bug: the offset taken from freeISs stays on it.
IndexAddKeepsFree(ib, entity, comps) ==
  LET nC == Len(ib.types)
      had == ib.entityISByEntity[entity] # NoIS
      iS == IF had THEN ib.entityISByEntity[entity]
            ELSE IF ib.freeISs # <<>> THEN ib.freeISs[Len(ib.freeISs)]
            ELSE Len(ib.storage)
  IN [ ib EXCEPT
         !.entityISByEntity = [@ EXCEPT ![entity] = iS],
         !.storage = WriteComps(SetAt(ib.storage, iS, EntSlot(entity)), iS,
                                SubSeq(comps, 1, nC), 0),
         !.addVer = IF ib.addVerObserved THEN @ + 1 ELSE @,
         !.addVerObserved = FALSE,
         !.adds = @ + 1 ]

\* IndexBase.add(entity, components)
IndexAdd(ib, entity, comps) ==
  LET nC == Len(ib.types)
      had == ib.entityISByEntity[entity] # NoIS
      pop == ~had /\ ib.freeISs # <<>>
      iS == IF had THEN ib.entityISByEntity[entity]
            ELSE IF pop THEN ib.freeISs[Len(ib.freeISs)]
            ELSE Len(ib.storage)
  IN [ ib EXCEPT
         !.entityISByEntity = [@ EXCEPT ![entity] = iS],
         !.freeISs = IF pop THEN SubSeq(@, 1, Len(@) - 1) ELSE @,
         !.storage = WriteComps(SetAt(ib.storage, iS, EntSlot(entity)), iS,
                                SubSeq(comps, 1, nC), 0),
         !.addVer = IF ib.addVerObserved THEN @ + 1 ELSE @,
         !.addVerObserved = FALSE,
         !.adds = @ + 1 ]

\* The position of type in types, or -1: the linear search of IndexBase.emplace.
TypePos(types, type) ==
  IF \E i \in 1 .. Len(types) : types[i] = type
  THEN (CHOOSE i \in 1 .. Len(types) : types[i] = type) - 1
  ELSE -1

\* IndexBase.emplace(entity, type, component): [ib, ret, err]
IndexEmplace(ib, entity, type, component) ==
  LET iS == ib.entityISByEntity[entity]
      iC == TypePos(ib.types, type)
  IN IF iS = NoIS THEN [ib |-> ib, ret |-> FALSE, err |-> ""]
     ELSE IF iC >= 0
     THEN [ib |-> [ib EXCEPT !.storage[iS + iC + 2] = CompSlot(component)],
           ret |-> TRUE, err |-> ""]
     ELSE [ib |-> ib, ret |-> FALSE, err |-> "Type is not in the index"]

\* IndexBase.remove with a bug: the last record is moved into the place of
\* the removed one and the storage is shortened, instead of the record being
\* overwritten with undefined.
IndexRemoveSwaps(ib, entity) ==
  LET iS == ib.entityISByEntity[entity]
      nC == Len(ib.types)
      lastIS == Len(ib.storage) - (nC + 1)
      moved == ib.storage[lastIS + 1].e
  IN IF iS = NoIS THEN ib
     ELSE [ ib EXCEPT
              !.entityISByEntity =
                 [e \in DOMAIN @ |-> IF e = entity THEN NoIS
                                     ELSE IF e = moved THEN iS ELSE @[e]],
              !.storage = [i \in 1 .. lastIS |->
                             IF i - 1 >= iS /\ i - 1 <= iS + nC
                             THEN @[lastIS + (i - iS)] ELSE @[i]],
              !.remVer = IF ib.remVerObserved THEN @ + 1 ELSE @,
              !.remVerObserved = FALSE,
              !.removes = @ + 1 ]

\* IndexBase.remove(entity)
IndexRemove(ib, entity) ==
  LET iS == ib.entityISByEntity[entity]
      nC == Len(ib.types)
  IN IF iS = NoIS THEN ib
     ELSE [ ib EXCEPT
              !.entityISByEntity = [@ EXCEPT ![entity] = NoIS],
              !.freeISs = Append(@, iS),
              !.storage = [i \in 1 .. Len(@) |->
                             IF i - 1 >= iS /\ i - 1 <= iS + nC THEN UndefSlot ELSE @[i]],
              !.remVer = IF ib.remVerObserved THEN @ + 1 ELSE @,
              !.remVerObserved = FALSE,
              !.removes = @ + 1 ]

\* IndexBase.observeAddVer with a bug: addVerObserved is not set.
ObserveAddVerForgets(ib) == ib

\* IndexBase.observeAddVer(): the IndexBase after the call; the value
\* returned is its addVer.
ObserveAddVer(ib) == [ib EXCEPT !.addVerObserved = TRUE]

\* IndexBase.observeRemVer with a bug: remVerObserved is not set.
ObserveRemVerForgets(ib) == ib

\* IndexBase.observeRemVer(): the IndexBase after the call; the value
\* returned is its remVer.
ObserveRemVer(ib) == [ib EXCEPT !.remVerObserved = TRUE]

\* IndexBase.observeAddVer / observeRemVer, as the IndexIteratorBase
\* constructor calls them one after the other.
IndexObserve(ib) == ObserveRemVer(ObserveAddVer(ib))

\* ------------------------------------------------------- IndexIteratorBase

\* The value NaN of IndexIteratorBase.entity, held like a slot of the storage
\* the field is read from.
NaN == [k |-> "n", e |-> 0, c |-> Undefined]

\* storage[i] of an IndexBase, undefined past the end of the array.
SlotAt(storage, i) ==
  IF i >= 0 /\ i < Len(storage) THEN storage[i + 1] ELSE UndefSlot

\* new IndexIteratorBase(indexBase, names): ref is the reference to
\* indexBase, ib the IndexBase itself. The properties named by names do not
\* exist yet and read as undefined.
NewIndexIterator(ref, ib, names) ==
  [ indexBase |-> ref,
    names |-> names,
    iS |-> (-1) - Len(names),
    addVer |-> ib.addVer,
    remVer |-> ib.remVer,
    entity |-> NaN,
    props |-> [iC \in 1 .. Len(names) |-> UndefSlot] ]

\* IndexIteratorBase.start()
IndexIteratorStart(it) ==
  [ it EXCEPT !.iS = (-1) - Len(it.names),
              !.entity = NaN,
              !.props = [iC \in 1 .. Len(it.names) |-> UndefSlot] ]

\* The do-while loop of IndexIteratorBase.next, from the cursor iS on: the
\* offset it stops at, and whether that is inside the storage.
RECURSIVE NextRecord(_, _, _)
NextRecord(storage, iS, nC) ==
  LET j == iS + 1 + nC
  IN IF j >= Len(storage) THEN [iS |-> j, found |-> FALSE]
     ELSE IF SlotAt(storage, j) = UndefSlot THEN NextRecord(storage, j, nC)
     ELSE [iS |-> j, found |-> TRUE]

\* IndexIteratorBase.next() with a bug: the loop stops at the first record,
\* removed or not.
IndexIteratorNextStopsAtRemoved(it, ib) ==
  LET nC == Len(it.names)
      j == it.iS + 1 + nC
  IN IF j >= Len(ib.storage)
     THEN [ it |-> [it EXCEPT !.iS = j, !.entity = NaN,
                              !.props = [iC \in 1 .. nC |-> UndefSlot]],
            ret |-> FALSE ]
     ELSE [ it |-> [it EXCEPT !.iS = j, !.entity = SlotAt(ib.storage, j),
                              !.props = [iC \in 1 .. nC |-> SlotAt(ib.storage, j + iC)]],
            ret |-> TRUE ]

\* IndexIteratorBase.next(): [it, ret]
IndexIteratorNext(it, ib) ==
  LET nC == Len(it.names)
      r == NextRecord(ib.storage, it.iS, nC)
  IN IF ~r.found
     THEN [ it |-> [it EXCEPT !.iS = r.iS, !.entity = NaN,
                              !.props = [iC \in 1 .. nC |-> UndefSlot]],
            ret |-> FALSE ]
     ELSE [ it |-> [it EXCEPT !.iS = r.iS, !.entity = SlotAt(ib.storage, r.iS),
                              !.props = [iC \in 1 .. nC |-> SlotAt(ib.storage, r.iS + iC)]],
            ret |-> TRUE ]

\* IndexIteratorBase.wasAddedTo(): [it, ret]; the IndexBase becomes
\* ObserveAddVer(ib).
IndexIteratorWasAddedTo(it, ib) ==
  IF it.addVer # ib.addVer
  THEN [it |-> [it EXCEPT !.addVer = ib.addVer], ret |-> TRUE]
  ELSE [it |-> it, ret |-> FALSE]

\* IndexIteratorBase.wasRemovedFrom with a bug: the version seen is not kept.
IndexIteratorWasRemovedFromKeepsStale(it, ib) ==
  IF it.remVer # ib.remVer
  THEN [it |-> it, ret |-> TRUE]
  ELSE [it |-> it, ret |-> FALSE]

\* IndexIteratorBase.wasRemovedFrom(): [it, ret]; the IndexBase becomes
\* ObserveRemVer(ib).
IndexIteratorWasRemovedFrom(it, ib) ==
  IF it.remVer # ib.remVer
  THEN [it |-> [it EXCEPT !.remVer = ib.remVer], ret |-> TRUE]
  ELSE [it |-> it, ret |-> FALSE]

\* IndexIteratorBase.wasChanged(): wasAddedTo() || wasRemovedFrom(), the
\* second called only when the first returns false. [it, ib, ret]
IndexIteratorWasChanged(it, ib) ==
  LET a == IndexIteratorWasAddedTo(it, ib)
      r == IndexIteratorWasRemovedFrom(a.it, ObserveAddVer(ib))
  IN IF a.ret
     THEN [it |-> a.it, ib |-> ObserveAddVer(ib), ret |-> TRUE]
     ELSE [it |-> r.it, ib |-> ObserveRemVer(ObserveAddVer(ib)), ret |-> r.ret]

\* --------------------------------------------------------------------- Trie

\* A trie is held as a function from its nodes to their values: a node is
\* named by the path of symbols that leads to it (the root is <<>>), it has
\* the branch s exactly when the path extended by s is a node, and its value
\* is NoValue when the code's value is undefined. The values stored are
\* references to IndexBase objects: an IndexBase is named by its types.
NoValue == <<"undefined">>
UndefNode == <<"undefined">>

EmptyTrie == [p \in {<<>>} |-> NoValue]

HasBranch(trie, node, s) == Append(node, s) \in DOMAIN trie

RECURSIVE GetInTrieFrom(_, _, _, _)
GetInTrieFrom(trie, seq, node, i) ==
  IF i >= Len(seq) THEN trie[node]
  ELSE IF ~HasBranch(trie, node, seq[i + 1]) THEN NoValue
  ELSE GetInTrieFrom(trie, seq, Append(node, seq[i + 1]), i + 1)

\* getInTrie(trie, seq)
GetInTrie(trie, seq) == GetInTrieFrom(trie, seq, <<>>, 0)

\* setInTrie(trie, seq, value)
SetInTrie(trie, seq, value) ==
  LET nodes == DOMAIN trie \cup { SubSeq(seq, 1, i) : i \in 0 .. Len(seq) }
  IN [p \in nodes |-> IF p = seq THEN value
                      ELSE IF p \in DOMAIN trie THEN trie[p] ELSE NoValue]

\* foreachSubsequenceInTriesRec(trie, seq, seqStart, seqLen, found), on the
\* node of the trie it is called with; vals are the values found was called
\* with so far, and found returns false at its stopAt-th call (never if
\* stopAt is 0). ForeachBranches is its for loop from i on, which reads
\* seq[seqLen] in its last round. [vals, ret]
RECURSIVE ForeachSubsequenceInTriesRec(_, _, _, _, _, _)
RECURSIVE ForeachBranches(_, _, _, _, _, _)
ForeachBranches(trie, node, seq, i, vals, stopAt) ==
  LET s == IF i < Len(seq) THEN seq[i + 1] ELSE "undefined"
      taken == s # "undefined" /\ HasBranch(trie, node, s)
      r == ForeachSubsequenceInTriesRec(trie, Append(node, s), seq, i + 1, vals, stopAt)
  IN IF i > Len(seq) THEN [vals |-> vals, ret |-> "void"]
     ELSE IF ~taken THEN ForeachBranches(trie, node, seq, i + 1, vals, stopAt)
     ELSE IF r.ret = "false" THEN r
     ELSE ForeachBranches(trie, node, seq, i + 1, r.vals, stopAt)

ForeachSubsequenceInTriesRec(trie, node, seq, seqStart, vals, stopAt) ==
  LET called == trie[node] # NoValue
      vals1 == IF called THEN Append(vals, trie[node]) ELSE vals
  IN IF called /\ Len(vals1) = stopAt THEN [vals |-> vals1, ret |-> "false"]
     ELSE ForeachBranches(trie, node, seq, seqStart, vals1, stopAt)

\* foreachSubsequenceInTrie(trie, seq, found)
ForeachSubsequenceInTrie(trie, seq, stopAt) ==
  ForeachSubsequenceInTriesRec(trie, <<>>, seq, 0, <<>>, stopAt)

\* ------------------------------------------------- TrieSubsequenceIterator

\* A hole of an array whose length was raised: never read by the code.
Hole == -9

\* new TrieSubsequenceIterator([], trie)
NewSubIt ==
  [path |-> << <<>> >>, seqIdx |-> <<0>>, pathLen |-> 0, seq |-> <<>>, value |-> NoValue]

\* reset(seq) with a bug: the value found last is left in place.
SubItResetKeepsValue(it, seq) ==
  [it EXCEPT !.seq = seq,
             !.pathLen = 0,
             !.seqIdx = SetAt(SetLength(it.seqIdx, Len(seq), Hole), 0, 0)]

\* reset(seq)
SubItReset(it, seq) ==
  [it EXCEPT !.seq = seq,
             !.pathLen = 0,
             !.seqIdx = SetAt(SetLength(it.seqIdx, Len(seq), Hole), 0, 0),
             !.value = NoValue]

\* this.seq[i], defined for 0 <= i < seq.length.
SeqAt(seq, i) == IF i >= 0 /\ i < Len(seq) THEN seq[i + 1] ELSE "undefined"

\* The inner while of next() with a bug: it returns at the end of the
\* sequence at any level, without going back up the path.
SubItBacktrackStops(it, pathLen) ==
  LET idx == it.seqIdx[pathLen + 1] + 1
  IN IF idx >= Len(it.seq)
     THEN [it |-> [it EXCEPT !.seqIdx[pathLen + 1] = -1], done |-> TRUE]
     ELSE [it |-> [it EXCEPT !.seqIdx[pathLen + 1] = idx, !.pathLen = pathLen],
           done |-> FALSE]

\* The inner while of next(): advance seqIdx[pathLen], popping a frame each
\* time it reaches the end of the sequence. [it, pathLen, done]
RECURSIVE SubItBacktrack(_, _)
SubItBacktrack(it, pathLen) ==
  LET idx == it.seqIdx[pathLen + 1] + 1
  IN IF idx >= Len(it.seq)
     THEN IF pathLen = 0
          THEN [it |-> [it EXCEPT !.seqIdx[pathLen + 1] = -1], done |-> TRUE]
          ELSE SubItBacktrack([it EXCEPT !.seqIdx[pathLen + 1] = -1,
                                         !.path[pathLen + 1] = UndefNode],
                              pathLen - 1)
     ELSE [it |-> [it EXCEPT !.seqIdx[pathLen + 1] = idx, !.pathLen = pathLen],
           done |-> FALSE]

\* The outer while (true) of next(). [it, ok]
RECURSIVE SubItSearch(_, _)
SubItSearch(it, trie) ==
  LET pathLen == it.pathLen
      node == it.path[pathLen + 1]
      s == SeqAt(it.seq, it.seqIdx[pathLen + 1])
      taken == s # "undefined" /\ HasBranch(trie, node, s)
      branch == Append(node, s)
      down == [it EXCEPT !.pathLen = pathLen + 1,
                         !.path = SetAt(@, pathLen + 1, branch),
                         !.seqIdx = SetAt(@, pathLen + 1, it.seqIdx[pathLen + 1] + 1)]
      it1 == IF taken THEN down ELSE it
      pathLen1 == IF taken THEN pathLen + 1 ELSE pathLen
  IN IF taken /\ trie[branch] # NoValue
     THEN [it |-> [down EXCEPT !.value = trie[branch]], ok |-> TRUE]
     ELSE IF ~taken \/ it1.seqIdx[pathLen1 + 1] >= Len(it.seq)
          THEN LET b == SubItBacktrack(it1, pathLen1)
               IN IF b.done THEN [it |-> b.it, ok |-> FALSE]
                  ELSE SubItSearch(b.it, trie)
          ELSE SubItSearch(it1, trie)

\* next() with a bug: the value at the root of the trie is not yielded.
SubItNextSkipsRoot(it, trie) == SubItSearch(it, trie)

\* next(): [it, ok]
SubItNext(it, trie) ==
  IF it.value = NoValue /\ it.pathLen = 0 /\ trie[<<>>] # NoValue
  THEN [it |-> [it EXCEPT !.value = trie[<<>>]], ok |-> TRUE]
  ELSE SubItSearch(it, trie)

\* for (it.reset(seq); it.next(); ) ...: the values in the order they are
\* yielded, and the iterator as the loop leaves it. [it, vals]
RECURSIVE SubItDrain(_, _, _)
SubItDrain(it, trie, vals) ==
  LET r == SubItNext(it, trie)
  IN IF r.ok THEN SubItDrain(r.it, trie, Append(vals, r.it.value))
     ELSE [it |-> r.it, vals |-> vals]

SubItWalk(it, trie, seq) == SubItDrain(SubItReset(it, seq), trie, <<>>)

\* ------------------------------------------------------------------- IdPool

Interval(l, r) == [left |-> l, right |-> r]

compareIntervals(a, b) ==
  IF a.left < b.left /\ a.right < b.right THEN -1
  ELSE IF a.left > b.left /\ a.right > b.right THEN 1
  ELSE 0

\* new IdPool(): the free list
NewIdPool == << Interval(1, MAX_SAFE_INTEGER) >>

\* reserve(): [free, id, err]. this.free[0] is undefined when the list is
\* empty, and first.left then throws a TypeError.
IdPoolReserve(free) ==
  IF free = <<>> THEN [free |-> free, id |-> 0, err |-> "TypeError"]
  ELSE LET first == free[1]
       IN IF first.left = MAX_SAFE_INTEGER
          THEN [free |-> free, id |-> 0, err |-> ""]
          ELSE IF first.left + 1 < first.right
          THEN [free |-> << Interval(first.left + 1, first.right) >> \o Tail(free),
                id |-> first.left, err |-> ""]
          ELSE IF first.left + 1 = MAX_SAFE_INTEGER
          THEN [free |-> free, id |-> 0, err |-> ""]
          ELSE [free |-> Tail(free), id |-> first.left, err |-> ""]

\* compareIntervals is a consistent comparator on the intervals of list: it
\* is antisymmetric and transitive by its definition, and consistent when
\* the pairs it returns 0 for form an equivalence.
ConsistentComparator(list) ==
  \A a, b, c \in Range(list) :
    compareIntervals(a, b) = 0 /\ compareIntervals(b, c) = 0
      => compareIntervals(a, c) = 0

\* The stable sort of list under a consistent comparator, by insertion.
RECURSIVE InsertInterval(_, _)
InsertInterval(sorted, x) ==
  IF sorted = <<>> THEN << x >>
  ELSE LET n == Len(sorted)
       IN IF compareIntervals(sorted[n], x) > 0
          THEN Append(InsertInterval(SubSeq(sorted, 1, n - 1), x), sorted[n])
          ELSE Append(sorted, x)

RECURSIVE StableSort(_)
StableSort(list) ==
  IF list = <<>> THEN <<>>
  ELSE InsertInterval(StableSort(SubSeq(list, 1, Len(list) - 1)), list[Len(list)])

\* The orders of the elements of list.
Orders(list) ==
  { [i \in 1 .. Len(list) |-> list[p[i]]] :
      p \in { q \in [1 .. Len(list) -> 1 .. Len(list)] :
                \A i, j \in 1 .. Len(list) : i # j => q[i] # q[j] } }

\* this.free.sort(compareIntervals): the sort is stable under a consistent
\* comparator; under any other the order is implementation-defined.
SortOutcomes(list) ==
  IF ConsistentComparator(list) THEN { StableSort(list) } ELSE Orders(list)

\* free.findIndex(interval => interval.left <= id && interval.right > id),
\* counted from 1; 0 is the -1 of findIndex.
FindIndex(free, id) ==
  LET found == { i \in 1 .. Len(free) : free[i].left <= id /\ free[i].right > id }
  IN IF found = {} THEN 0 ELSE CHOOSE i \in found : \A j \in found : i <= j

\* release(id): the free lists it can leave.
IdPoolRelease(free, id) ==
  IF id = 0 \/ id = MAX_SAFE_INTEGER THEN { free }
  ELSE LET index == FindIndex(free, id)
       IN IF index = 0
          THEN SortOutcomes(Append(free, Interval(id, id + 1)))
          ELSE SortOutcomes(
                 SubSeq(free, 1, index - 1)
                   \o << Interval(free[index].left, id),
                         Interval(id + 1, free[index].right) >>
                   \o SubSeq(free, index + 1, Len(free)))

\* ---------------------------------------------------------------- SparseSet

maxCapacity == 550000

\* new SparseSet(2048) of the World of the IdPool/SparseSet variant
InitialCapacity == 2048

\* An Int32Array: its length and its elements that are not 0.
Int32Array(n) == [length |-> n, at |-> [i \in {} |-> 0]]

\* arr[i] = v: a write past the end of a typed array is ignored.
ArrSet(arr, i, v) ==
  IF i < 0 \/ i >= arr.length THEN arr
  ELSE [arr EXCEPT !.at =
          [j \in (IF v = 0 THEN DOMAIN arr.at \ {i} ELSE DOMAIN arr.at \cup {i}) |->
             IF j = i THEN v ELSE arr.at[j]]]

\* newArr = new Int32Array(n); newArr.set(arr), for n >= arr.length
ArrGrow(arr, n) == [length |-> n, at |-> arr.at]

\* new SparseSet(capacity)
NewSparseSet(c) ==
  [dense |-> Int32Array(c), sparse |-> Int32Array(c), size |-> 0, capacity |-> c]

Max(a, b) == IF a >= b THEN a ELSE b

\* add(value): [set, err, ret]
SparseSetAdd(set, value) ==
  IF value >= maxCapacity
  THEN [set |-> set, err |-> "Error", ret |-> -1]
  ELSE LET newCapacity == Max(set.capacity * 2, value + 1)
           grown == IF value >= set.capacity
                    THEN [set EXCEPT !.dense = ArrGrow(@, newCapacity),
                                     !.sparse = ArrGrow(@, newCapacity),
                                     !.capacity = newCapacity]
                    ELSE set
           index == grown.size
       IN [set |-> [grown EXCEPT !.dense = ArrSet(@, index, value),
                                 !.sparse = ArrSet(@, value, index),
                                 !.size = index + 1],
           err |-> "", ret |-> index]

\* arr[i] read: << v >> for the element v, << >> for the undefined that a
\* read outside the array gives.
ArrGet(arr, i) ==
  IF i < 0 \/ i >= arr.length THEN <<>>
  ELSE IF i \in DOMAIN arr.at THEN << arr.at[i] >> ELSE << 0 >>

\* The number an Int32Array stores when it is assigned what a read gave:
\* undefined is stored as 0.
ToInt32(read) == IF read = <<>> THEN 0 ELSE read[1]

\* remove(value) with a bug: sparse is not patched for the value that moves.
SparseSetRemoveNoPatch(set, value) ==
  IF set.size = 0 THEN set
  ELSE LET denseIndex == ArrGet(set.sparse, value)
           moved == ArrGet(set.dense, set.size - 1)
       IN [set EXCEPT
             !.dense = IF denseIndex = <<>> THEN @
                       ELSE ArrSet(@, denseIndex[1], ToInt32(moved)),
             !.size = @ - 1]

\* remove(value). dense[denseIndex] = ... with denseIndex undefined and
\* sparse[dense[last]] = ... with dense[last] undefined write no element.
SparseSetRemove(set, value) ==
  IF set.size = 0 THEN set
  ELSE LET denseIndex == ArrGet(set.sparse, value)
           moved == ArrGet(set.dense, set.size - 1)
       IN [set EXCEPT
             !.dense = IF denseIndex = <<>> THEN @
                       ELSE ArrSet(@, denseIndex[1], ToInt32(moved)),
             !.sparse = IF moved = <<>> THEN @
                        ELSE ArrSet(@, moved[1], ToInt32(denseIndex)),
             !.size = @ - 1]

\* has(value): undefined < size is false
SparseSetHas(set, value) ==
  LET index == ArrGet(set.sparse, value)
  IN /\ index # <<>>
     /\ index[1] < set.size
     /\ ArrGet(set.dense, index[1]) = << value >>

\* get(value)
SparseSetGet(set, value) == ArrGet(set.sparse, value)

\* The values the iterator of the set yields: dense[0 .. size).
SparseSetValues(set) == [i \in 1 .. set.size |-> ArrGet(set.dense, i - 1)]

\* ------------------------------------ World of the IdPool/SparseSet variant

\* The World as a record the methods below take and return: ids is
\* this.ids.free, entities this.entities, componentsStorage the storages in
\* the order of the keys, each with its type, its components array and its
\* sparseSet. err and ret are how the call ends. removes and freed are not
\* in the code: the SparseSet.remove calls the call has made, each with the
\* set it was made on, its value and whether the set had the value, and the
\* components whose free() it has called.
NewOldWorld ==
  [ ids |-> NewIdPool, entities |-> NewSparseSet(InitialCapacity),
    componentsStorage |-> <<>>,
    err |-> "", ret |-> -1, retComp |-> Undefined, removes |-> <<>>, freed |-> <<>> ]

\* The place of this.componentsStorage[type] in the storages, 0 if it is
\* undefined.
StorageOf(w, type) ==
  LET found == { i \in 1 .. Len(w.componentsStorage) : w.componentsStorage[i].type = type }
  IN IF found = {} THEN 0 ELSE CHOOSE i \in found : TRUE

\* storage.components[index], undefined outside the array.
ComponentAt(storage, index) ==
  IF index # <<>> /\ index[1] >= 0 /\ index[1] < Len(storage.components)
  THEN storage.components[index[1] + 1] ELSE Undefined

\* World.exists(entity)
OldExists(w, entity) == SparseSetHas(w.entities, entity)

\* World.size()
OldSize(w) == w.entities.size

\* World.has(entity, component)
OldHas(w, entity, type) ==
  LET i == StorageOf(w, type)
  IN i # 0 /\ SparseSetHas(w.componentsStorage[i].sparseSet, entity)

\* World.get(entity, component)
OldGet(w, entity, type) ==
  LET i == StorageOf(w, type)
      storage == w.componentsStorage[i]
  IN IF i = 0 THEN Undefined
     ELSE IF ~SparseSetHas(storage.sparseSet, entity) THEN Undefined
     ELSE ComponentAt(storage, SparseSetGet(storage.sparseSet, entity))

\* World.emplace(entity, component)
OldEmplace(w, entity, component) ==
  LET i == StorageOf(w, component.type)
      w1 == IF i # 0 THEN w
            ELSE [w EXCEPT !.componentsStorage =
                    Append(@, [type |-> component.type, components |-> <<>>,
                               sparseSet |-> NewSparseSet(InitialCapacity)])]
      j == StorageOf(w1, component.type)
      a == SparseSetAdd(w1.componentsStorage[j].sparseSet, entity)
  IN IF ~SparseSetHas(w.entities, entity)
     THEN [w EXCEPT !.err = "Cannot set component for dead entity ID"]
     ELSE IF a.err # "" THEN [w1 EXCEPT !.err = a.err]
     ELSE [w1 EXCEPT !.componentsStorage[j].sparseSet = a.set,
                     !.componentsStorage[j].components = SetAt(@, a.ret, component)]

RECURSIVE OldEmplaceAll(_, _, _, _)
OldEmplaceAll(w, entity, comps, i) ==
  IF i >= Len(comps) \/ w.err # "" THEN w
  ELSE OldEmplaceAll(OldEmplace(w, entity, comps[i + 1]), entity, comps, i + 1)

\* World.create(...components)
OldCreate(w, comps) ==
  LET r == IdPoolReserve(w.ids)
      a == SparseSetAdd(w.entities, r.id)
      w1 == OldEmplaceAll([w EXCEPT !.ids = r.free, !.entities = a.set], r.id, comps, 0)
  IN IF r.err # "" THEN [w EXCEPT !.err = r.err]
     ELSE IF a.err # "" THEN [w EXCEPT !.ids = r.free, !.err = a.err]
     ELSE IF w1.err # "" THEN w1
     ELSE [w1 EXCEPT !.ret = r.id]

\* sparseSet.remove(value) called by the World on the set named on.
RemoveCall(on, set, value) ==
  [on |-> on, value |-> value, had |-> SparseSetHas(set, value)]

\* The for loop of World.destroy over the storages, from the i-th on.
RECURSIVE OldDestroyStorages(_, _, _)
OldDestroyStorages(w, entity, i) ==
  LET storage == w.componentsStorage[i]
      component == ComponentAt(storage, SparseSetGet(storage.sparseSet, entity))
      w1 == [w EXCEPT
               !.freed = IF component # Undefined /\ component.free # "undefined"
                         THEN Append(@, component) ELSE @,
               !.removes = Append(@, RemoveCall(storage.type, storage.sparseSet, entity)),
               !.componentsStorage[i].sparseSet = SparseSetRemove(@, entity)]
  IN IF i > Len(w.componentsStorage) THEN w
     ELSE IF SparseSetHas(storage.sparseSet, entity)
     THEN OldDestroyStorages(w1, entity, i + 1)
     ELSE OldDestroyStorages(w, entity, i + 1)

\* World.destroy(entity), where ids.release(entity) leaves the free list
\* released.
OldDestroy(w, entity, released) ==
  OldDestroyStorages(
    [w EXCEPT !.removes = Append(@, RemoveCall("entities", w.entities, entity)),
              !.entities = SparseSetRemove(@, entity),
              !.ids = released],
    entity, 1)

\* World.remove(entity, component)
OldRemove(w, entity, type) ==
  LET i == StorageOf(w, type)
      storage == w.componentsStorage[i]
      index == SparseSetGet(storage.sparseSet, entity)
      lastIndex == storage.sparseSet.size - 1
      moved == [storage.components EXCEPT ![index[1] + 1] = storage.components[lastIndex + 1]]
  IN IF i = 0 THEN w
     ELSE IF ~SparseSetHas(storage.sparseSet, entity) THEN w
     ELSE [w EXCEPT
             !.retComp = ComponentAt(storage, index),
             !.removes = Append(@, RemoveCall(type, storage.sparseSet, entity)),
             !.componentsStorage[i].components = SubSeq(moved, 1, Len(moved) - 1),
             !.componentsStorage[i].sparseSet = SparseSetRemove(@, entity)]

\* -------------------------------------------------------------------- World

VARIABLES
  entitySequence,          \* World.entitySequence
  entities,                \* World.entities, a Set: its elements in insertion order
  components,              \* World.components: type -> entity -> component
  compKeys,                \* the keys of World.components, in insertion order
  indexesByComponent,      \* World.indexesByComponent: type -> IndexBase references
  indexByComponents,       \* World.indexByComponents, the trie
  indexBases,              \* the IndexBase objects, by reference
  indexByComponentsSubIt,  \* World.indexByComponentsSubIt
  create_typesP,           \* World.create_typesP
  create_ecs,              \* World.create_ecs
  index_specs,             \* World.index_specs
  index_ecs,               \* World.index_ecs
  stack,                   \* the calls in progress: destroy and clear frames
  log,                     \* the hooks invoked and the destroy calls made by the current public call
  last,                    \* the current public call: what was called, what it returned
  nOps,                    \* number of public calls made
  iterators,               \* the IndexIteratorBase objects index() returned, in the order of the calls
  walks,                   \* for each iterator, what the caller has seen of it (see NewWalk)
  budget,                  \* number of public calls the run may make
  views,                   \* World.views: id -> the types the View was generated for
  issued,                  \* the ids create has returned so far
  given,                   \* the Views view() has returned, with the types they were asked for
  trie,                    \* a Trie used on its own
  subIt,                   \* a TrieSubsequenceIterator on trie
  trieWalk,                \* the query subIt was reset with and the values it has yielded
  free,                    \* IdPool.free of an IdPool used on its own
  pool,                    \* the last call on the IdPool and the ids its caller holds
  dense,                   \* SparseSet.dense of a SparseSet used on its own
  sparse,                  \* SparseSet.sparse
  size,                    \* SparseSet.size
  capacity,                \* SparseSet.capacity
  setLast,                 \* the last call on the SparseSet
  ids,                     \* World.ids.free of the World of the IdPool/SparseSet variant
  entitiesSet,             \* World.entities of that World, a SparseSet
  componentsStorage,       \* World.componentsStorage of that World, its keys in insertion order
  oldLast                  \* the last public call on that World

vars == << entitySequence, entities, components, compKeys, indexesByComponent,
           indexByComponents, indexBases, indexByComponentsSubIt, create_typesP,
           create_ecs, index_specs, index_ecs, stack, log, last, nOps,
           iterators, walks, budget, views, issued, given, trie, subIt, trieWalk,
           free, pool, dense, sparse, size, capacity, setLast,
           ids, entitiesSet, componentsStorage, oldLast >>

\* The objects that are used on their own, outside the World.
trieVars == << trie, subIt, trieWalk >>
poolVars == << free, pool >>
setVars == << dense, sparse, size, capacity, setLast >>
oldVars == << ids, entitiesSet, componentsStorage, oldLast >>
units == << trieVars, poolVars, setVars, oldVars >>

\* The variables of the World, which the calls on other objects leave alone.
worldVars ==
  << entitySequence, entities, components, compKeys, indexesByComponent,
     indexByComponents, indexBases, indexByComponentsSubIt, create_typesP,
     create_ecs, index_specs, index_ecs, stack, log, last, nOps,
     iterators, walks, budget, views, issued, given >>

\* The state of the World and of the call in progress as one record, which
\* the methods below take and return.
World ==
  [ entitySequence |-> entitySequence, entities |-> entities,
    components |-> components, compKeys |-> compKeys,
    indexesByComponent |-> indexesByComponent,
    indexByComponents |-> indexByComponents, indexBases |-> indexBases,
    indexByComponentsSubIt |-> indexByComponentsSubIt,
    views |-> views,
    create_typesP |-> create_typesP, create_ecs |-> create_ecs,
    index_specs |-> index_specs, index_ecs |-> index_ecs,
    stack |-> stack, log |-> <<>>, err |-> "",
    retEnt |-> -1, retComp |-> Undefined, retIt |-> <<>>, retBool |-> FALSE,
    retView |-> <<>>, cbs |-> <<>>, tracked |-> <<>> ]

Hook(h, c, e) == [hook |-> h, comp |-> c, ent |-> e]

\* this.entityTracker?.entityAdded?.(entity) and entityRemoved, with a
\* tracker installed by trackEntities that has both callbacks: the call is
\* added to the calls made on the tracker in the current step.
EntityAdded(w, entity) ==
  [w EXCEPT !.tracked = Append(@, [cb |-> "entityAdded", ent |-> entity])]
EntityRemoved(w, entity) ==
  [w EXCEPT !.tracked = Append(@, [cb |-> "entityRemoved", ent |-> entity])]

\* if (storage == null) this.components[type] = {}
Register(w, type) ==
  IF type \in Range(w.compKeys) THEN w
  ELSE [w EXCEPT !.compKeys = Append(@, type)]

\* arr[i] = vals[i] for i < vals.length, the rest of arr kept.
Overwrite(arr, vals) ==
  vals \o SubSeq(arr, Len(vals) + 1, Len(arr))

\* World.exists(entity)
Exists(w, entity) == entity \in Range(w.entities)

\* World.get(entity, componentClass)
Get(w, entity, type) ==
  IF type \notin Range(w.compKeys) THEN Undefined ELSE w.components[type][entity]

\* World.has(entity, componentClass)
Has(w, entity, type) ==
  type \in Range(w.compKeys) /\ w.components[type][entity] # Undefined

\* The gathering loops of emplace and index: ecs[iC] = components[types[iC]][entity]
\* until a component is missing. [ecs, all]
RECURSIVE Gather(_, _, _, _, _)
Gather(w, types, entity, ecs, iC) ==
  IF iC >= Len(types) THEN [ecs |-> ecs, all |-> TRUE]
  ELSE LET ec == w.components[types[iC + 1]][entity]
       IN IF ec = Undefined THEN [ecs |-> ecs, all |-> FALSE]
          ELSE Gather(w, types, entity, SetAt(ecs, iC, ec), iC + 1)

\* The index loop of World.emplace, from index iI on.
RECURSIVE EmplaceIndexes(_, _, _, _, _)
EmplaceIndexes(w, entity, component, indexes, iI) ==
  IF iI >= Len(indexes) THEN w
  ELSE LET ref == indexes[iI + 1]
           r == IndexEmplace(w.indexBases[ref], entity, component.type, component)
           g == Gather(w, ref, entity, w.index_ecs, 0)
       IN IF r.err # "" THEN [w EXCEPT !.err = r.err]
          ELSE IF r.ret
          THEN EmplaceIndexes([w EXCEPT !.indexBases[ref] = r.ib],
                              entity, component, indexes, iI + 1)
          ELSE IF ~g.all
          THEN EmplaceIndexes([w EXCEPT !.index_ecs = g.ecs],
                              entity, component, indexes, iI + 1)
          ELSE EmplaceIndexes([w EXCEPT !.index_ecs = g.ecs,
                                        !.indexBases[ref] = IndexAdd(@, entity, g.ecs)],
                              entity, component, indexes, iI + 1)

\* World.emplace with a bug: an entity that already has a component of the
\* type keeps it.
WorldEmplaceKeepsFirst(w, entity, component) ==
  LET type == component.type
  IN IF ~Exists(w, entity) THEN [w EXCEPT !.err = "Cannot set component for dead entity"]
     ELSE IF w.components[type][entity] # Undefined THEN w
     ELSE LET w1 == [Register(w, type) EXCEPT
                       !.components[type][entity] = component,
                       !.log = Append(@, Hook("added", component, entity))]
              indexes == w1.indexesByComponent[type]
              w2 == EmplaceIndexes(w1, entity, component, indexes, 0)
          IN IF indexes = <<>> \/ w2.err # "" THEN w2
             ELSE [w2 EXCEPT !.index_ecs = <<>>]

\* World.emplace with a bug: the component is stored before the entity is
\* found dead.
WorldEmplaceStoresFirst(w, entity, component) ==
  LET type == component.type
      w1 == [Register(w, type) EXCEPT
               !.components[type][entity] = component,
               !.log = Append(@, Hook("added", component, entity))]
      indexes == w1.indexesByComponent[type]
      w2 == EmplaceIndexes(w1, entity, component, indexes, 0)
  IN IF ~Exists(w, entity) THEN [w1 EXCEPT !.err = "Cannot set component for dead entity"]
     ELSE IF indexes = <<>> \/ w2.err # "" THEN w2
     ELSE [w2 EXCEPT !.index_ecs = <<>>]

\* World.emplace(entity, component)
WorldEmplace(w, entity, component) ==
  LET type == component.type
  IN IF ~Exists(w, entity) THEN [w EXCEPT !.err = "Cannot set component for dead entity"]
     ELSE LET w1 == [Register(w, type) EXCEPT
                       !.components[type][entity] = component,
                       !.log = Append(@, Hook("added", component, entity))]
              indexes == w1.indexesByComponent[type]
              w2 == EmplaceIndexes(w1, entity, component, indexes, 0)
          IN IF indexes = <<>> \/ w2.err # "" THEN w2
             ELSE [w2 EXCEPT !.index_ecs = <<>>]

\* The first loop of World.create: call added, store the component, collect its type.
RECURSIVE CreateStore(_, _, _, _)
CreateStore(w, entity, comps, iPC) ==
  IF iPC >= Len(comps) THEN w
  ELSE LET component == comps[iPC + 1]
           type == component.type
       IN CreateStore([Register(w, type) EXCEPT
                         !.log = Append(@, Hook("added", component, entity)),
                         !.components[type][entity] = component,
                         !.create_typesP = SetAt(@, iPC, type)],
                      entity, comps, iPC + 1)

\* The duplicate check of World.create on the sorted types.
HasDuplicate(types) == \E i \in 1 .. Len(types) - 1 : types[i] = types[i + 1]

\* The index loop of World.create over the indexes the trie walk yields.
RECURSIVE CreateIndexes(_, _, _, _)
CreateIndexes(w, entity, refs, i) ==
  IF i >= Len(refs) THEN w
  ELSE LET ref == refs[i + 1]
           ecs == Overwrite(w.create_ecs,
                            [iIC \in 1 .. Len(ref) |-> w.components[ref[iIC]][entity]])
       IN CreateIndexes([w EXCEPT !.create_ecs = ecs,
                                  !.indexBases[ref] = IndexAdd(@, entity, ecs)],
                        entity, refs, i + 1)

\* World.create with a bug: the error path leaves create_typesP as it is.
WorldCreateLeavesScratch(w, comps) ==
  LET entity == w.entitySequence
      w1 == [w EXCEPT !.entitySequence = @ + 1, !.entities = SetAdd(@, entity)]
      w2 == CreateStore(w1, entity, comps, 0)
      typesP == SortTypes(SetLength(w2.create_typesP, Len(comps), "undefined"))
      walk == SubItWalk(w2.indexByComponentsSubIt, w2.indexByComponents, typesP)
      w3 == CreateIndexes([w2 EXCEPT !.create_typesP = typesP], entity, walk.vals, 0)
  IN IF HasDuplicate(typesP)
     THEN [w2 EXCEPT !.create_typesP = typesP,
                     !.err = "Duplicate component type in World.create"]
     ELSE [w3 EXCEPT !.create_typesP = <<>>, !.create_ecs = <<>>,
                     !.indexByComponentsSubIt = [walk.it EXCEPT !.seq = <<>>],
                     !.retEnt = entity]

\* World.create(...components). The iterator's seq is the create_typesP
\* array itself, so it is empty once create has emptied that array.
WorldCreate(w, comps) ==
  LET entity == w.entitySequence
      w1 == [EntityAdded(w, entity) EXCEPT !.entitySequence = @ + 1,
                                         !.entities = SetAdd(@, entity)]
      w2 == CreateStore(w1, entity, comps, 0)
      typesP == SortTypes(SetLength(w2.create_typesP, Len(comps), "undefined"))
      walk == SubItWalk(w2.indexByComponentsSubIt, w2.indexByComponents, typesP)
      w3 == CreateIndexes([w2 EXCEPT !.create_typesP = typesP], entity, walk.vals, 0)
  IN IF HasDuplicate(typesP)
     THEN [w2 EXCEPT !.create_typesP = <<>>, !.err = "Duplicate component type in World.create"]
     ELSE [w3 EXCEPT !.create_typesP = <<>>, !.create_ecs = <<>>,
                     !.indexByComponentsSubIt = [walk.it EXCEPT !.seq = <<>>],
                     !.retEnt = entity]

RECURSIVE EmplaceAll(_, _, _, _)
EmplaceAll(w, entity, comps, i) ==
  IF i >= Len(comps) \/ w.err # "" THEN w
  ELSE EmplaceAll(WorldEmplace(w, entity, comps[i + 1]), entity, comps, i + 1)

\* World.insert with a bug: the components the entity holds are dropped
\* before the new ones are assigned.
WorldInsertReplaces(w, entity, comps) ==
  LET w1 == [w EXCEPT
               !.entitySequence = IF entity > @ THEN entity + 1 ELSE @,
               !.entities = SetAdd(@, entity),
               !.components = [t \in DOMAIN @ |-> [@[t] EXCEPT ![entity] = Undefined]]]
      w2 == EmplaceAll(w1, entity, comps, 0)
  IN IF w2.err # "" THEN w2 ELSE [w2 EXCEPT !.retEnt = entity]

\* World.insert(entity, ...components)
WorldInsert(w, entity, comps) ==
  LET w1 == [(IF Exists(w, entity) THEN w ELSE EntityAdded(w, entity)) EXCEPT
               !.entitySequence = IF entity > @ THEN entity + 1 ELSE @,
               !.entities = SetAdd(@, entity)]
      w2 == EmplaceAll(w1, entity, comps, 0)
  IN IF w2.err # "" THEN w2 ELSE [w2 EXCEPT !.retEnt = entity]

RECURSIVE RemoveFromIndexes(_, _, _, _)
RemoveFromIndexes(w, entity, refs, i) ==
  IF i >= Len(refs) THEN w
  ELSE RemoveFromIndexes([w EXCEPT !.indexBases[refs[i + 1]] = IndexRemove(@, entity)],
                         entity, refs, i + 1)

\* World.remove with a bug: the storage of the type is read without the
\* test that it exists, which throws for a type that was never registered.
WorldRemoveUnguarded(w, entity, type) ==
  LET component == w.components[type][entity]
      w1 == [w EXCEPT !.components[type][entity] = Undefined,
                      !.log = Append(@, Hook("removed", component, entity)),
                      !.retComp = component]
  IN IF type \notin Range(w.compKeys)
     THEN [w EXCEPT !.err = "Cannot read properties of undefined"]
     ELSE IF component = Undefined THEN w
     ELSE RemoveFromIndexes(w1, entity, w1.indexesByComponent[type], 0)

\* World.remove with a bug: the removed component is freed, as destroy does.
WorldRemoveFrees(w, entity, type) ==
  LET component == w.components[type][entity]
      w1 == [w EXCEPT !.components[type][entity] = Undefined,
                      !.log = IF component.free = "function"
                              THEN @ \o << Hook("removed", component, entity),
                                           Hook("free", component, entity) >>
                              ELSE Append(@, Hook("removed", component, entity)),
                      !.retComp = component]
  IN IF type \notin Range(w.compKeys) \/ component = Undefined THEN w
     ELSE RemoveFromIndexes(w1, entity, w1.indexesByComponent[type], 0)

\* World.remove(entity, componentClass)
WorldRemove(w, entity, type) ==
  LET component == w.components[type][entity]
      w1 == [w EXCEPT !.components[type][entity] = Undefined,
                      !.log = Append(@, Hook("removed", component, entity)),
                      !.retComp = component]
  IN IF type \notin Range(w.compKeys) \/ component = Undefined THEN w
     ELSE RemoveFromIndexes(w1, entity, w1.indexesByComponent[type], 0)

\* The for-in loop of World.destroy with a bug: delete storage[entity] is
\* forgotten.
RECURSIVE DestroyCollectKeeps(_, _, _, _, _)
DestroyCollectKeeps(w, entity, iK, types, freeComponents) ==
  IF iK >= Len(w.compKeys)
  THEN [w |-> w, types |-> types, freeComponents |-> freeComponents]
  ELSE LET key == w.compKeys[iK + 1]
           component == w.components[key][entity]
       IN IF component = Undefined
          THEN DestroyCollectKeeps(w, entity, iK + 1, types, freeComponents)
          ELSE DestroyCollectKeeps(
                 [w EXCEPT !.log = Append(@, Hook("removed", component, entity))],
                 entity, iK + 1, Append(types, component.type),
                 IF component.free # "undefined" THEN Append(freeComponents, component)
                 ELSE freeComponents)

\* The for-in loop of World.destroy over the keys of this.components.
\* [w, types, freeComponents]
RECURSIVE DestroyCollect(_, _, _, _, _)
DestroyCollect(w, entity, iK, types, freeComponents) ==
  IF iK >= Len(w.compKeys)
  THEN [w |-> w, types |-> types, freeComponents |-> freeComponents]
  ELSE LET key == w.compKeys[iK + 1]
           component == w.components[key][entity]
       IN IF component = Undefined
          THEN DestroyCollect(w, entity, iK + 1, types, freeComponents)
          ELSE DestroyCollect(
                 [w EXCEPT !.components[key][entity] = Undefined,
                           !.log = Append(@, Hook("removed", component, entity))],
                 entity, iK + 1, Append(types, component.type),
                 IF component.free # "undefined" THEN Append(freeComponents, component)
                 ELSE freeComponents)

Frame(kind, entity, freeComponents) ==
  [kind |-> kind, entity |-> entity, freeComponents |-> freeComponents, c |-> 0]

\* World.destroy with a bug: types.sort() is forgotten.
WorldDestroyUnsorted(w, entity) ==
  LET w1 == [w EXCEPT !.entities = SeqDelete(@, entity),
                      !.log = Append(@, Hook("destroy", Undefined, entity))]
      col == DestroyCollect(w1, entity, 0, <<>>, <<>>)
      types == col.types
      walk == SubItWalk(w.indexByComponentsSubIt, w.indexByComponents, types)
      w2 == RemoveFromIndexes(col.w, entity, walk.vals, 0)
  IN [w2 EXCEPT !.indexByComponentsSubIt = [walk.it EXCEPT !.seq = <<>>],
                !.stack = Append(@, Frame("destroy", entity, col.freeComponents))]

\* World.destroy with a bug: this.entities.delete(entity) is forgotten.
WorldDestroyKeepsAlive(w, entity) ==
  LET w1 == [w EXCEPT !.log = Append(@, Hook("destroy", Undefined, entity))]
      col == DestroyCollect(w1, entity, 0, <<>>, <<>>)
      types == SortTypes(col.types)
      walk == SubItWalk(w.indexByComponentsSubIt, w.indexByComponents, types)
      w2 == RemoveFromIndexes(col.w, entity, walk.vals, 0)
  IN [w2 EXCEPT !.indexByComponentsSubIt = [walk.it EXCEPT !.seq = <<>>],
                !.stack = Append(@, Frame("destroy", entity, col.freeComponents))]

\* World.destroy with a bug: the entity is left in the indexes when the
\* free hooks are called.
WorldDestroySkipIndexes(w, entity) ==
  LET w1 == [w EXCEPT !.entities = SeqDelete(@, entity),
                      !.log = Append(@, Hook("destroy", Undefined, entity))]
      col == DestroyCollect(w1, entity, 0, <<>>, <<>>)
      types == SortTypes(col.types)
      walk == SubItWalk(w.indexByComponentsSubIt, w.indexByComponents, types)
  IN [col.w EXCEPT !.indexByComponentsSubIt = [walk.it EXCEPT !.seq = <<>>],
                   !.stack = Append(@, Frame("destroy", entity, col.freeComponents))]

\* World.destroy(entity) up to its last loop, the one that calls the free
\* hooks: that loop is left on the stack as a frame.
WorldDestroy(w, entity) ==
  LET w1 == [EntityRemoved(w, entity) EXCEPT
               !.entities = SeqDelete(@, entity),
               !.log = Append(@, Hook("destroy", Undefined, entity))]
      col == DestroyCollect(w1, entity, 0, <<>>, <<>>)
      types == SortTypes(col.types)
      walk == SubItWalk(w.indexByComponentsSubIt, w.indexByComponents, types)
      w2 == RemoveFromIndexes(col.w, entity, walk.vals, 0)
  IN [w2 EXCEPT !.indexByComponentsSubIt = [walk.it EXCEPT !.seq = <<>>],
                !.stack = Append(@, Frame("destroy", entity, col.freeComponents))]

\* World.clear(): the loop over this.entities.values() is left on the stack.
\* clear() with a bug: it resets the entity sequence.
WorldClearResets(w) ==
  [w EXCEPT !.entitySequence = 0, !.stack = Append(@, Frame("clear", 0, <<>>))]

WorldClear(w) == [w EXCEPT !.stack = Append(@, Frame("clear", 0, <<>>))]

Pop(st) == SubSeq(st, 1, Len(st) - 1)

\* One step of the innermost call in progress. A clear frame destroys the
\* next entity of the live set (the entities before it were visited and
\* deleted) or ends; a destroy frame calls the next free hook, which does
\* outcome, or ends. A hook that throws unwinds every call in progress.
StepFrame(w, outcome) ==
  LET top == w.stack[Len(w.stack)]
      component == top.freeComponents[top.c + 1]
      w1 == [w EXCEPT !.stack[Len(w.stack)].c = @ + 1,
                      !.log = Append(@, Hook("free", component, top.entity))]
  IN IF top.kind = "clear"
     THEN IF w.entities = <<>> THEN [w EXCEPT !.stack = Pop(@)]
          ELSE WorldDestroy(w, Head(w.entities))
     ELSE IF top.c >= Len(top.freeComponents) THEN [w EXCEPT !.stack = Pop(@)]
     ELSE IF outcome.do = "throw" THEN [w1 EXCEPT !.stack = <<>>, !.err = "thrown by free"]
     ELSE IF outcome.do = "destroy" THEN WorldDestroy(w1, outcome.target)
     ELSE w1

\* One [name, type] pair of an index spec.
SpecPair(n, t) == [name |-> n, type |-> t]

RECURSIVE InsertSpec(_, _)
InsertSpec(p, s) ==
  IF s = <<>> THEN <<p>>
  ELSE IF TypeRank(p.type) < TypeRank(Head(s).type) THEN <<p>> \o s
  ELSE <<Head(s)>> \o InsertSpec(p, Tail(s))

\* specs.sort(this.index_indexComponentSpecOrd): a stable sort by type name.
RECURSIVE SortSpecs(_)
SortSpecs(s) ==
  IF s = <<>> THEN <<>>
  ELSE InsertSpec(s[Len(s)], SortSpecs(SubSeq(s, 1, Len(s) - 1)))

RECURSIVE RegisterAll(_, _, _)
RegisterAll(w, types, i) ==
  IF i >= Len(types) THEN w
  ELSE RegisterAll(Register(w, types[i + 1]), types, i + 1)

\* The entity loop of World.index that fills a new IndexBase.
RECURSIVE IndexEntities(_, _, _, _)
IndexEntities(w, ref, ents, i) ==
  IF i >= Len(ents) THEN w
  ELSE LET g == Gather(w, ref, ents[i + 1], w.index_ecs, 0)
       IN IndexEntities(
            IF g.all
            THEN [w EXCEPT !.index_ecs = g.ecs,
                           !.indexBases[ref] = IndexAdd(@, ents[i + 1], g.ecs)]
            ELSE [w EXCEPT !.index_ecs = g.ecs],
            ref, ents, i + 1)

\* indexesByComponent.get(c).push(indexBase) for each type of the new index.
PushIndex(byComponent, types, ref) ==
  [t \in DOMAIN byComponent |->
     IF t \in Range(types) THEN Append(byComponent[t], ref) ELSE byComponent[t]]

\* The names of the sorted specs: names[iC] = specs[iC][0].
SpecNames(specs) == [i \in 1 .. Len(specs) |-> specs[i].name]

\* World.index with a bug: the duplicate types are looked for after the
\* IndexBase has been registered.
WorldIndexChecksLate(w, indexSpec) ==
  LET w1 == RegisterAll(w, [i \in 1 .. Len(indexSpec) |-> indexSpec[i].type], 0)
      specs == SortSpecs(indexSpec)
      types == [i \in 1 .. Len(specs) |-> specs[i].type]
      found == GetInTrie(w1.indexByComponents, types)
      w2 == [w1 EXCEPT
               !.indexBases = [r \in DOMAIN @ \cup {types} |->
                                 IF r = types THEN NewIndexBase(types) ELSE @[r]],
               !.indexByComponents = SetInTrie(@, types, types),
               !.indexesByComponent = PushIndex(@, types, types)]
      w3 == IndexEntities(w2, types, w2.entities, 0)
  IN IF found # NoValue
     THEN [w1 EXCEPT !.index_specs = <<>>,
                     !.indexBases[found] = IndexObserve(@),
                     !.retIt = <<NewIndexIterator(found, w1.indexBases[found],
                                                  SpecNames(specs))>>]
     ELSE IF HasDuplicate(types)
     THEN [w3 EXCEPT !.index_specs = <<>>, !.index_ecs = <<>>,
                     !.err = "Duplicate component type in index"]
     ELSE [w3 EXCEPT !.index_specs = <<>>, !.index_ecs = <<>>,
                     !.indexBases[types] = IndexObserve(@),
                     !.retIt = <<NewIndexIterator(types, w3.indexBases[types],
                                                  SpecNames(specs))>>]

\* World.index with a bug: the IndexBase registered for the types is not
\* looked up and a new one is registered by every call.
WorldIndexAlwaysNew(w, indexSpec) ==
  LET w1 == RegisterAll(w, [i \in 1 .. Len(indexSpec) |-> indexSpec[i].type], 0)
      specs == SortSpecs(indexSpec)
      types == [i \in 1 .. Len(specs) |-> specs[i].type]
      w2 == [w1 EXCEPT
               !.indexBases = [r \in DOMAIN @ \cup {types} |->
                                 IF r = types THEN NewIndexBase(types) ELSE @[r]],
               !.indexByComponents = SetInTrie(@, types, types),
               !.indexesByComponent = PushIndex(@, types, types)]
      w3 == IndexEntities(w2, types, w2.entities, 0)
  IN IF HasDuplicate(types)
     THEN [w1 EXCEPT !.index_specs = <<>>, !.err = "Duplicate component type in index"]
     ELSE [w3 EXCEPT !.index_specs = <<>>, !.index_ecs = <<>>,
                     !.indexBases[types] = IndexObserve(@),
                     !.retIt = <<NewIndexIterator(types, w3.indexBases[types],
                                                  SpecNames(specs))>>]

\* World.index(indexSpec): indexSpec as the list of its [name, type] entries
\* in key order. The iterator returned is built on the IndexBase whose
\* versions the constructor observes.
WorldIndex(w, indexSpec) ==
  LET w1 == RegisterAll(w, [i \in 1 .. Len(indexSpec) |-> indexSpec[i].type], 0)
      specs == SortSpecs(indexSpec)
      types == [i \in 1 .. Len(specs) |-> specs[i].type]
      found == GetInTrie(w1.indexByComponents, types)
      w2 == [w1 EXCEPT
               !.indexBases = [r \in DOMAIN @ \cup {types} |->
                                 IF r = types THEN NewIndexBase(types) ELSE @[r]],
               !.indexByComponents = SetInTrie(@, types, types),
               !.indexesByComponent = PushIndex(@, types, types)]
      w3 == IndexEntities(w2, types, w2.entities, 0)
  IN IF HasDuplicate(types)
     THEN [w1 EXCEPT !.index_specs = <<>>, !.err = "Duplicate component type in index"]
     ELSE IF found # NoValue
     THEN [w1 EXCEPT !.index_specs = <<>>,
                     !.indexBases[found] = IndexObserve(@),
                     !.retIt = <<NewIndexIterator(found, w1.indexBases[found],
                                                  SpecNames(specs))>>]
     ELSE [w3 EXCEPT !.index_specs = <<>>, !.index_ecs = <<>>,
                     !.indexBases[types] = IndexObserve(@),
                     !.retIt = <<NewIndexIterator(types, w3.indexBases[types],
                                                  SpecNames(specs))>>]

\* registerSingleton with a bug: the singleton entity is not made alive.
WorldRegisterSingletonNoAdd(w, component) ==
  WorldEmplace(w, singletonEntity, component)

\* World.registerSingleton(component)
WorldRegisterSingleton(w, component) ==
  WorldEmplace([w EXCEPT !.entities = SetAdd(@, singletonEntity)],
               singletonEntity, component)

\* World.getSingleton(type)
GetSingleton(w, type) == Get(w, singletonEntity, type)

\* World.removeSingleton(type)
WorldRemoveSingleton(w, type) ==
  IF ~Exists(w, singletonEntity) THEN w
  ELSE [WorldRemove(w, singletonEntity, type) EXCEPT !.retComp = Undefined]

\* The id of World.view: the names of the types, one after the other.
RECURSIVE ViewId(_)
ViewId(types) ==
  IF types = <<>> THEN "" ELSE Head(types) \o ViewId(Tail(types))

\* World.view(...types). A View is known by the id it was built under, and
\* this.views keeps the types generateView built it for.
WorldView(w, types) ==
  LET id == ViewId(types)
      w1 == IF id \in DOMAIN w.views THEN w
            ELSE [RegisterAll(w, types, 0) EXCEPT !.views = (id :> types) @@ w.views]
  IN [w1 EXCEPT !.retView = << [view |-> id, types |-> types, stopAt |-> 0] >>]

\* The function generateView(world, types) returns, called with a callback
\* that returns false when it is called for the stopAt-th time (never when
\* stopAt is 0) and does nothing else: the calls of the callback it makes.
RECURSIVE ViewLoop(_, _, _, _, _)
ViewLoop(w, types, i, stopAt, cbs) ==
  IF i > Len(w.entities) THEN cbs
  ELSE LET entity == w.entities[i]
           variables == [k \in 1 .. Len(types) |-> w.components[types[k]][entity]]
       IN IF \E k \in 1 .. Len(types) : variables[k] = Undefined
          THEN ViewLoop(w, types, i + 1, stopAt, cbs)
          ELSE LET called == Append(cbs, [entity |-> entity, comps |-> variables])
               IN IF Len(called) = stopAt THEN called
                  ELSE ViewLoop(w, types, i + 1, stopAt, called)

\* ViewImpl.each(callback) on the View built under id view
ViewEach(w, view, stopAt) == ViewLoop(w, w.views[view], 1, stopAt, <<>>)

\* ------------------------------------------------------------------ inputs

\* The argument lists of create and insert.
CompSeqs == UNION { [1 .. n -> Comps] : n \in 0 .. MaxArgs }

\* The index specs the calls are made with.
IndexSpecs ==
  { <<>>,
    << SpecPair("a", "A") >>,
    << SpecPair("b", "B") >>,
    << SpecPair("a", "A"), SpecPair("b", "B") >>,
    << SpecPair("b", "B"), SpecPair("_a", "A") >>,
    << SpecPair("a", "A"), SpecPair("a2", "A") >> }

\* ----------------------------------------------------------------- actions

\* The components entity holds, whatever their type.
HeldBy(w, entity) == { w.components[t][entity] : t \in Types } \ {Undefined}

Commit(w) ==
  /\ entitySequence' = w.entitySequence
  /\ entities' = w.entities
  /\ components' = w.components
  /\ compKeys' = w.compKeys
  /\ indexesByComponent' = w.indexesByComponent
  /\ indexByComponents' = w.indexByComponents
  /\ indexBases' = w.indexBases
  /\ indexByComponentsSubIt' = w.indexByComponentsSubIt
  /\ views' = w.views
  /\ create_typesP' = w.create_typesP
  /\ create_ecs' = w.create_ecs
  /\ index_specs' = w.index_specs
  /\ index_ecs' = w.index_ecs
  /\ stack' = w.stack
  /\ log' = w.log

\* What the caller of index() keeps about the iterator it got, none of it a
\* field of the code: the spec it passed; the entities next() has yielded
\* since the iterator was built or started and the adds and removes counts
\* of its IndexBase at that time; the counts at its last wasAddedTo() and
\* wasRemovedFrom() (at its construction before the first), and what these
\* calls have returned so far.
NewWalk(spec, ib) ==
  [ spec |-> spec, yielded |-> <<>>,
    adds0 |-> ib.adds, removes0 |-> ib.removes,
    addsSeen |-> ib.adds, removesSeen |-> ib.removes,
    addedTo |-> <<>>, removedFrom |-> <<>> ]

\* A public call made by the user of the World: no call is in progress.
\* last keeps the call, the components its entity held when it was made,
\* how it ended, and how the call before it ended.
\* it is the place in iterators of the iterator the call is made on or
\* returns (0 when there is none), ret the boolean it returns.
Call(op, ent, args, type, spec, w) ==
  /\ stack = <<>>
  /\ nOps < budget
  /\ Commit(w)
  /\ nOps' = nOps + 1
  /\ iterators' = iterators \o w.retIt
  /\ walks' = IF w.retIt = <<>> THEN walks
              ELSE Append(walks, NewWalk(spec, w.indexBases[w.retIt[1].indexBase]))
  /\ issued' = IF op = "create" /\ w.err = "" THEN issued \cup {w.retEnt} ELSE issued
  /\ given' = IF op = "view"
              THEN given \cup { [view |-> w.retView[1].view, types |-> w.retView[1].types] }
              ELSE given
  /\ UNCHANGED << budget, units >>
  /\ last' = [op |-> op, ent |-> ent, args |-> args, type |-> type, spec |-> spec,
              held |-> IF ent \in EntityIds THEN HeldBy(World, ent) ELSE {},
              err |-> w.err, retEnt |-> w.retEnt, retComp |-> w.retComp,
              prevErr |-> last.err,
              it |-> IF w.retIt = <<>> THEN 0 ELSE Len(iterators) + 1,
              ret |-> w.retBool, view |-> w.retView, cbs |-> w.cbs,
              tracked |-> w.tracked]

Create(comps) ==
  /\ entitySequence < MaxSeq
  /\ Call("create", -1, comps, "", <<>>, WorldCreate(World, comps))

Insert(entity, comps) ==
  Call("insert", entity, comps, "", <<>>, WorldInsert(World, entity, comps))

Emplace(entity, component) ==
  Call("emplace", entity, <<component>>, "", <<>>, WorldEmplace(World, entity, component))

Remove(entity, type) ==
  Call("remove", entity, <<>>, type, <<>>, WorldRemove(World, entity, type))

Destroy(entity) ==
  Call("destroy", entity, <<>>, "", <<>>, WorldDestroy(World, entity))

Clear ==
  Call("clear", -1, <<>>, "", <<>>, WorldClear(World))

Index(indexSpec) ==
  /\ \A r \in DOMAIN indexBases :
       indexBases[r].addVer < MaxVer /\ indexBases[r].remVer < MaxVer
  /\ Call("index", -1, <<>>, "", indexSpec, WorldIndex(World, indexSpec))

RegisterSingleton(component) ==
  Call("registerSingleton", -1, <<component>>, "", <<>>,
       WorldRegisterSingleton(World, component))

RemoveSingleton(type) ==
  Call("removeSingleton", -1, <<>>, type, <<>>, WorldRemoveSingleton(World, type))

\* The call in progress goes on: see StepFrame.
Step(outcome) ==
  /\ stack # <<>>
  /\ LET w == StepFrame([World EXCEPT !.log = log, !.err = last.err], outcome)
     IN /\ Commit(w)
        /\ last' = [last EXCEPT !.err = w.err, !.tracked = w.tracked]
  /\ nOps' = nOps
  /\ UNCHANGED << iterators, walks, budget, issued, given, units >>

\* World.get(entity, componentClass) called by the user.
GetCall(entity, type) ==
  Call("get", entity, <<>>, type, <<>>,
       [World EXCEPT !.retComp = Get(World, entity, type)])

\* World.has(entity, componentClass) called by the user.
HasCall(entity, type) ==
  Call("has", entity, <<>>, type, <<>>,
       [World EXCEPT !.retBool = Has(World, entity, type)])

\* A call of a method of the iterator iterators[i]: it leaves the iterator
\* as it, its IndexBase as ib, and returns ret.
IteratorCall(op, i, it, ib, ret, walk) ==
  /\ stack = <<>>
  /\ nOps < budget
  /\ nOps' = nOps + 1
  /\ iterators' = [iterators EXCEPT ![i] = it]
  /\ walks' = [walks EXCEPT ![i] = walk]
  /\ indexBases' = [indexBases EXCEPT ![iterators[i].indexBase] = ib]
  /\ log' = <<>>
  /\ last' = [op |-> op, ent |-> -1, args |-> <<>>, type |-> "", spec |-> <<>>,
              held |-> {}, err |-> "", retEnt |-> -1, retComp |-> Undefined,
              prevErr |-> last.err, it |-> i, ret |-> ret,
              view |-> <<>>, cbs |-> <<>>, tracked |-> <<>>]
  /\ UNCHANGED << entitySequence, entities, components, compKeys, indexesByComponent,
                  indexByComponents, indexByComponentsSubIt, create_typesP,
                  create_ecs, index_specs, index_ecs, stack, budget,
                  views, issued, given, units >>

\* it.start()
IteratorStart(i) ==
  LET ib == indexBases[iterators[i].indexBase]
  IN IteratorCall("start", i, IndexIteratorStart(iterators[i]), ib, FALSE,
                  [walks[i] EXCEPT !.yielded = <<>>,
                                   !.adds0 = ib.adds, !.removes0 = ib.removes])

\* it.next()
IteratorNext(i) ==
  LET ib == indexBases[iterators[i].indexBase]
      r == IndexIteratorNext(iterators[i], ib)
  IN IteratorCall("next", i, r.it, ib, r.ret,
                  [walks[i] EXCEPT !.yielded = IF r.ret THEN Append(@, r.it.entity) ELSE @])

\* it.wasAddedTo()
WasAddedTo(i) ==
  LET ib == indexBases[iterators[i].indexBase]
      r == IndexIteratorWasAddedTo(iterators[i], ib)
  IN IteratorCall("wasAddedTo", i, r.it, ObserveAddVer(ib), r.ret,
                  [walks[i] EXCEPT !.addsSeen = ib.adds, !.addedTo = Append(@, r.ret)])

\* it.wasRemovedFrom()
WasRemovedFrom(i) ==
  LET ib == indexBases[iterators[i].indexBase]
      r == IndexIteratorWasRemovedFrom(iterators[i], ib)
  IN IteratorCall("wasRemovedFrom", i, r.it, ObserveRemVer(ib), r.ret,
                  [walks[i] EXCEPT !.removesSeen = ib.removes,
                                   !.removedFrom = Append(@, r.ret)])

\* it.wasChanged(): the wasAddedTo() and, when it is made, the
\* wasRemovedFrom() call in it count as calls of these methods.
WasChanged(i) ==
  LET ib == indexBases[iterators[i].indexBase]
      a == IndexIteratorWasAddedTo(iterators[i], ib)
      r == IndexIteratorWasChanged(iterators[i], ib)
  IN IteratorCall("wasChanged", i, r.it, r.ib, r.ret,
                  IF a.ret
                  THEN [walks[i] EXCEPT !.addsSeen = ib.adds, !.addedTo = Append(@, TRUE)]
                  ELSE [walks[i] EXCEPT !.addsSeen = ib.adds, !.addedTo = Append(@, FALSE),
                                        !.removesSeen = ib.removes,
                                        !.removedFrom = Append(@, r.ret)])

\* The objects used on their own when they are built: an empty Trie and an
\* iterator on it, new IdPool(), and new SparseSet(2048) as the World of the
\* IdPool/SparseSet variant builds it.
NewUnits ==
  /\ trie = EmptyTrie
  /\ subIt = NewSubIt
  /\ trieWalk = [seq |-> <<>>, vals |-> <<>>, state |-> "build", resets |-> 0,
                 cut |-> [len |-> 0, state |-> "build", pathLen |-> 0]]
  /\ free = NewIdPool
  /\ pool = [op |-> "new", id |-> 0, ret |-> 0, err |-> "", before |-> {},
             reserved |-> {}, misused |-> FALSE, n |-> 0]
  /\ dense = NewSparseSet(InitialCapacity).dense
  /\ sparse = NewSparseSet(InitialCapacity).sparse
  /\ size = NewSparseSet(InitialCapacity).size
  /\ capacity = NewSparseSet(InitialCapacity).capacity
  /\ setLast = [op |-> "new", value |-> InitialCapacity, err |-> "", ret |-> -1, n |-> 0,
                members |-> {}, misused |-> FALSE]
  /\ ids = NewOldWorld.ids
  /\ entitiesSet = NewOldWorld.entities
  /\ componentsStorage = NewOldWorld.componentsStorage
  /\ oldLast = [op |-> "new", ent |-> -1, type |-> "", args |-> <<>>, err |-> "",
                ret |-> -1, retComp |-> Undefined, removes |-> <<>>, freed |-> <<>>,
                n |-> 0]

\* new World(), about to be used for calls public calls.
NewWorld(calls) ==
  /\ entitySequence = 0
  /\ entities = <<>>
  /\ components = [t \in ClassNames |-> [e \in EntityIds |-> Undefined]]
  /\ compKeys = <<>>
  /\ indexesByComponent = [t \in Types |-> <<>>]
  /\ indexByComponents = EmptyTrie
  /\ indexBases = [r \in {} |-> NewIndexBase(<<>>)]
  /\ indexByComponentsSubIt = NewSubIt
  /\ create_typesP = <<>>
  /\ create_ecs = <<>>
  /\ index_specs = <<>>
  /\ index_ecs = <<>>
  /\ stack = <<>>
  /\ log = <<>>
  /\ last = [op |-> "new", ent |-> -1, args |-> <<>>, type |-> "", spec |-> <<>>,
             held |-> {}, err |-> "", retEnt |-> -1, retComp |-> Undefined,
             prevErr |-> "", it |-> 0, ret |-> FALSE, view |-> <<>>, cbs |-> <<>>,
             tracked |-> <<>>]
  /\ nOps = 0
  /\ iterators = <<>>
  /\ walks = <<>>
  /\ budget = calls
  /\ views = [id \in {} |-> <<>>]
  /\ issued = {}
  /\ given = {}
  /\ NewUnits

Init == NewWorld(MaxOps)

Next ==
  \/ \E comps \in CompSeqs : Create(comps)
  \/ \E entity \in 0 .. (MaxSeq - 1), comps \in CompSeqs : Insert(entity, comps)
  \/ \E entity \in EntityIds, component \in Comps : Emplace(entity, component)
  \/ \E entity \in EntityIds, type \in Types : Remove(entity, type)
  \/ \E entity \in EntityIds : Destroy(entity)
  \/ Clear
  \/ \E indexSpec \in IndexSpecs : Index(indexSpec)
  \/ \E component \in Comps : RegisterSingleton(component)
  \/ \E type \in Types : RemoveSingleton(type)
  \/ \E outcome \in FreeOutcomes : Step(outcome)

Spec == Init /\ [][Next]_vars

\* The World used with get and has among the other calls.
QueryNext ==
  \/ Next
  \/ \E entity \in EntityIds, type \in Types : GetCall(entity, type)
  \/ \E entity \in EntityIds, type \in Types : HasCall(entity, type)

QuerySpec == Init /\ [][QueryNext]_vars

\* The World used through its indexes: longer runs of fewer calls, the
\* caller keeping the iterators index() returns and walking them.
WalkComps == { Comp("A", 1, "undefined"), Comp("B", 1, "function") }

WalkCompSeqs ==
  { << Comp("A", 1, "undefined") >>,
    << Comp("A", 1, "undefined"), Comp("B", 1, "function") >> }

WalkIndexSpecs ==
  { << SpecPair("a", "A") >>,
    << SpecPair("a", "A"), SpecPair("b", "B") >>,
    << SpecPair("b", "B"), SpecPair("_a", "A") >> }

WalkInit == NewWorld(MaxWalkOps)

WalkNext ==
  \/ \E comps \in WalkCompSeqs : Create(comps)
  \/ \E entity \in 0 .. (MaxSeq - 1), component \in WalkComps : Emplace(entity, component)
  \/ \E entity \in 0 .. (MaxSeq - 1), type \in Types : Remove(entity, type)
  \/ \E entity \in 0 .. (MaxSeq - 1) : Destroy(entity)
  \/ Step(Outcome("return", -1))
  \/ \E indexSpec \in WalkIndexSpecs : Len(iterators) < MaxIts /\ Index(indexSpec)
  \/ \E i \in 1 .. Len(iterators) : IteratorStart(i)
  \/ \E i \in 1 .. Len(iterators) : IteratorNext(i)
  \/ \E i \in 1 .. Len(iterators) : WasAddedTo(i)
  \/ \E i \in 1 .. Len(iterators) : WasRemovedFrom(i)
  \/ \E i \in 1 .. Len(iterators) : WasChanged(i)

WalkSpec == WalkInit /\ [][WalkNext]_vars

\* The World used through its views: the type tuples view() is called
\* with have no type twice (generateView declares one constant per type)
\* and are not empty.
ViewTuples ==
  { t \in UNION { [1 .. n -> ClassNames] : n \in 1 .. MaxArgs } :
      \A i, j \in 1 .. Len(t) : i # j => t[i] # t[j] }

\* world.view(...types)
View(types) ==
  Call("view", -1, <<>>, "", <<>>, WorldView(World, types))

\* g.view.each(callback), on a View the caller got for the types g.types
Each(g, stopAt) ==
  Call("each", -1, <<>>, "", <<>>,
       [World EXCEPT !.retView = << [view |-> g.view, types |-> g.types,
                                     stopAt |-> stopAt] >>,
                     !.cbs = ViewEach(World, g.view, stopAt)])

ViewInit == NewWorld(MaxViewOps)

ViewNext ==
  \/ \E comps \in WalkCompSeqs : Create(comps)
  \/ \E entity \in 0 .. (MaxSeq - 1), type \in Types : Remove(entity, type)
  \/ \E types \in ViewTuples : View(types)
  \/ \E g \in given, stopAt \in 0 .. MaxSeq : Each(g, stopAt)

ViewSpec == ViewInit /\ [][ViewNext]_vars

\* --------------------------------------------------- the IdPool on its own

\* pool.reserve(). The caller holds the id it gets, unless it is the 0 that
\* reserve returns when it has no id to give.
Reserve ==
  /\ pool.n < MaxPoolOps
  /\ LET r == IdPoolReserve(free)
     IN /\ free' = r.free
        /\ pool' = [op |-> "reserve", id |-> 0, ret |-> r.id, err |-> r.err,
                    before |-> pool.reserved,
                    reserved |-> IF r.err = "" /\ r.id # 0
                                 THEN pool.reserved \cup {r.id} ELSE pool.reserved,
                    misused |-> pool.misused, n |-> pool.n + 1]
  /\ UNCHANGED << worldVars, trieVars, setVars, oldVars >>

\* pool.release(id). The pool is misused once release is called with an id
\* its caller does not hold.
Release(id) ==
  /\ pool.n < MaxPoolOps
  /\ Len(free) < MaxIntervals
  /\ free' \in IdPoolRelease(free, id)
  /\ pool' = [op |-> "release", id |-> id, ret |-> 0, err |-> "",
              before |-> pool.reserved, reserved |-> pool.reserved \ {id},
              misused |-> pool.misused \/ id \notin pool.reserved, n |-> pool.n + 1]
  /\ UNCHANGED << worldVars, trieVars, setVars, oldVars >>

PoolNext ==
  \/ Reserve
  \/ \E id \in 0 .. MAX_SAFE_INTEGER : Release(id)

PoolSpec == Init /\ [][PoolNext]_vars

\* ------------------------------------------------ the SparseSet on its own

\* The fields of the SparseSet as one record. setLast keeps, besides the
\* last call, the values added and not removed since, and whether add was
\* called with one of them or remove with any other value.
Set == [dense |-> dense, sparse |-> sparse, size |-> size, capacity |-> capacity]

\* The values add is called with: small ones, and the ones around the
\* capacities the code and its specification name.
SetValues == {0, 1, 2, maxCapacity - 1, maxCapacity, 559999, 560000}

\* The capacities a SparseSet is built with.
SetCapacities == {0, 1, InitialCapacity}

\* set = new SparseSet(c)
NewSet(c) ==
  /\ setLast.n < MaxSetOps
  /\ dense' = NewSparseSet(c).dense
  /\ sparse' = NewSparseSet(c).sparse
  /\ size' = NewSparseSet(c).size
  /\ capacity' = NewSparseSet(c).capacity
  /\ setLast' = [op |-> "new", value |-> c, err |-> "", ret |-> -1, n |-> setLast.n + 1,
                 members |-> {}, misused |-> FALSE]
  /\ UNCHANGED << worldVars, trieVars, poolVars, oldVars >>

\* set.add(value)
AddValue(value) ==
  /\ setLast.n < MaxSetOps
  /\ LET r == SparseSetAdd(Set, value)
     IN /\ dense' = r.set.dense
        /\ sparse' = r.set.sparse
        /\ size' = r.set.size
        /\ capacity' = r.set.capacity
        /\ setLast' = [op |-> "add", value |-> value, err |-> r.err, ret |-> r.ret,
                       n |-> setLast.n + 1,
                       members |-> IF r.err = "" THEN setLast.members \cup {value}
                                   ELSE setLast.members,
                       misused |-> setLast.misused \/ value \in setLast.members]
  /\ UNCHANGED << worldVars, trieVars, poolVars, oldVars >>

\* set.remove(value)
RemoveValue(value) ==
  /\ setLast.n < MaxSetOps
  /\ LET r == SparseSetRemove(Set, value)
     IN /\ dense' = r.dense
        /\ sparse' = r.sparse
        /\ size' = r.size
        /\ capacity' = r.capacity
  /\ setLast' = [op |-> "remove", value |-> value, err |-> "", ret |-> -1,
                 n |-> setLast.n + 1,
                 members |-> setLast.members \ {value},
                 misused |-> setLast.misused \/ value \notin setLast.members]
  /\ UNCHANGED << worldVars, trieVars, poolVars, oldVars >>

SetNext ==
  \/ \E c \in SetCapacities : NewSet(c)
  \/ \E value \in SetValues : AddValue(value)
  \/ \E value \in SetValues : RemoveValue(value)

SetSpec == Init /\ [][SetNext]_vars

\* ------------------------------- the World of the IdPool/SparseSet variant

\* The World of the IdPool/SparseSet variant before a call.
OldWorld ==
  [NewOldWorld EXCEPT !.ids = ids, !.entities = entitiesSet,
                      !.componentsStorage = componentsStorage]

\* The entity ids the calls are made with (the IdPool hands out 1, 2, ...),
\* and the argument lists of create.
OldIds == 0 .. MaxOldId
OldCompSeqs == { <<>> } \cup { << c >> : c \in Comps }
                 \cup { << Comp("A", 2, "function"), Comp("B", 1, "function") >> }

\* A public call on that World, which leaves it as w.
OldCall(op, ent, type, args, w) ==
  /\ oldLast.n < MaxOldOps
  /\ ids' = w.ids
  /\ entitiesSet' = w.entities
  /\ componentsStorage' = w.componentsStorage
  /\ oldLast' = [op |-> op, ent |-> ent, type |-> type, args |-> args, err |-> w.err,
                 ret |-> w.ret, retComp |-> w.retComp, removes |-> w.removes,
                 freed |-> w.freed, n |-> oldLast.n + 1]
  /\ UNCHANGED << worldVars, trieVars, poolVars, setVars >>

OldWorldCreate(comps) == OldCall("create", -1, "", comps, OldCreate(OldWorld, comps))

OldWorldEmplace(entity, component) ==
  OldCall("emplace", entity, component.type, << component >>,
          OldEmplace(OldWorld, entity, component))

OldWorldRemove(entity, type) ==
  OldCall("remove", entity, type, <<>>, OldRemove(OldWorld, entity, type))

OldWorldDestroy(entity) ==
  /\ oldLast.n < MaxOldOps
  /\ Len(ids) < MaxIntervals
  /\ \E released \in IdPoolRelease(ids, entity) :
       OldCall("destroy", entity, "", <<>>, OldDestroy(OldWorld, entity, released))

OldNext ==
  \/ \E comps \in OldCompSeqs : OldWorldCreate(comps)
  \/ \E entity \in OldIds, component \in Comps : OldWorldEmplace(entity, component)
  \/ \E entity \in OldIds, type \in Types : OldWorldRemove(entity, type)
  \/ \E entity \in OldIds : OldWorldDestroy(entity)

OldSpec == Init /\ [][OldNext]_vars

\* ----------------------------------------------------- the trie on its own

\* The symbols of the keys and queries, the keys, and the query sequences,
\* which are made of distinct symbols.
Symbols == {"A", "B", "C"}

TrieKeys == UNION { [1 .. n -> Symbols] : n \in 0 .. MaxKeyLen }

Queries ==
  { q \in UNION { [1 .. n -> Symbols] : n \in 0 .. Cardinality(Symbols) } :
      \A i, j \in 1 .. Len(q) : i # j => q[i] # q[j] }

\* Query sequences in which a symbol occurs more than once.
RepeatQueries ==
  { q \in UNION { [1 .. n -> {"A", "B"}] : n \in 2 .. Cardinality(Symbols) } :
      \E i, j \in 1 .. Len(q) : i # j /\ q[i] = q[j] }

\* The keys that have a value in the trie.
StoredKeys(t) == { p \in DOMAIN t : t[p] # NoValue }

\* setInTrie(trie, key, value): the value stored names the key, as the
\* World stores under a list of types the IndexBase of these types.
TrieSet(key) ==
  /\ trieWalk.state = "build"
  /\ Cardinality(StoredKeys(trie)) < MaxKeys
  /\ trie' = SetInTrie(trie, key, key)
  /\ UNCHANGED << subIt, trieWalk, worldVars, poolVars, setVars, oldVars >>

\* subIt.reset(seq), before the first next(), in the middle of a walk or
\* after it; cut keeps the length of the query, the state and the depth of
\* the walk it ends, none of it a field of the code.
TrieReset(seq) ==
  /\ trieWalk.resets < MaxResets
  /\ subIt' = SubItReset(subIt, seq)
  /\ trieWalk' = [seq |-> seq, vals |-> <<>>, state |-> "walk",
                  resets |-> trieWalk.resets + 1,
                  cut |-> [len |-> Len(trieWalk.seq), state |-> trieWalk.state,
                           pathLen |-> subIt.pathLen]]
  /\ UNCHANGED << trie, worldVars, poolVars, setVars, oldVars >>

\* subIt.next(): the walk is over when it returns false.
TrieNext ==
  /\ trieWalk.state = "walk"
  /\ Len(trieWalk.vals) < MaxYields
  /\ LET r == SubItNext(subIt, trie)
     IN /\ subIt' = r.it
        /\ trieWalk' = IF r.ok THEN [trieWalk EXCEPT !.vals = Append(@, r.it.value)]
                       ELSE [trieWalk EXCEPT !.state = "done"]
  /\ UNCHANGED << trie, worldVars, poolVars, setVars, oldVars >>

TrieStep ==
  \/ \E key \in TrieKeys : TrieSet(key)
  \/ \E seq \in Queries : TrieReset(seq)
  \/ \E seq \in RepeatQueries : TrieReset(seq)
  \/ TrieNext

TrieSpec == Init /\ [][TrieStep]_vars

\* ------------------------------------------------------------- observations

\* No public call is in progress.
Idle == stack = <<>>

\* entity has a record in the IndexBase ref.
InIndex(ref, entity) == indexBases[ref].entityISByEntity[entity] # NoIS

\* entity holds a component of every type of types.
HoldsAll(entity, types) == \A i \in 1 .. Len(types) : Has(World, entity, types[i])

\* IndexBase.storage[i], undefined past the end.
StorageAt(ref, i) ==
  IF i < Len(indexBases[ref].storage) THEN indexBases[ref].storage[i + 1] ELSE UndefSlot

\* entity is not alive, holds no component and has no record in any IndexBase.
Gone(entity) ==
  /\ ~Exists(World, entity)
  /\ \A t \in Types : Get(World, entity, t) = Undefined
  /\ \A ref \in DOMAIN indexBases : ~InIndex(ref, entity)

\* How many times the entry h occurs in the log.
Count(h) == Cardinality({ i \in 1 .. Len(log) : log[i] = h })

\* -------------------------------------------------------------------- claims

\* C1: between public calls, a live entity has a record in a registered
\* IndexBase exactly when it holds a component of every type of that index.
C1_IndexCoherent ==
  Idle =>
    \A e \in Range(entities), ref \in DOMAIN indexBases :
      InIndex(ref, e) <=> HoldsAll(e, ref)

\* C2: between public calls, the record of an entity in an IndexBase holds
\* the entity in slot 0 and, in slot i + 1, the component World.get returns
\* for the entity and the i-th type of the index.
C2_RecordsCurrent ==
  Idle =>
    \A ref \in DOMAIN indexBases, e \in EntityIds :
      InIndex(ref, e) =>
        LET iS == indexBases[ref].entityISByEntity[e]
        IN /\ StorageAt(ref, iS) = EntSlot(e)
           /\ \A i \in 1 .. Len(ref) :
                StorageAt(ref, iS + i) = CompSlot(Get(World, e, ref[i]))

\* C3: the id World.create returns was not alive immediately before the
\* call and is not the singleton entity.
C3_CreateFresh ==
  [][(nOps' = nOps + 1 /\ last'.op = "create")
       => (entitySequence \notin Range(entities) /\ entitySequence # singletonEntity)]_vars

\* C4: right after emplace(e, c) on a live entity, get(e, type(c)) is c;
\* right after remove(e, T), get(e, T) is undefined and has(e, T) is false.
C4_EmplaceGetRemove ==
  (Idle /\ last.err = "") =>
    /\ last.op = "emplace" =>
         Get(World, last.ent, last.args[1].type) = last.args[1]
    /\ last.op = "remove" =>
         /\ Get(World, last.ent, last.type) = Undefined
         /\ ~Has(World, last.ent, last.type)

\* An emplace has replaced an earlier component of the same type on an
\* entity that has a record in an index.
C4_Witness ==
  /\ Idle /\ last.op = "emplace" /\ last.err = ""
  /\ \E c \in last.held : c.type = last.args[1].type /\ c # last.args[1]
  /\ \E ref \in DOMAIN indexBases : InIndex(ref, last.ent)

\* The types of the components entity held when the current call was made.
HeldTypes == { c.type : c \in last.held }

\* C5: once destroy(e) has returned, e is not alive, get(e, T) is undefined
\* for every type, and e has no record in any IndexBase whose types e held
\* all of when destroy was called.
C5_DestroyRemoves ==
  (Idle /\ last.op = "destroy" /\ last.err = "") =>
    /\ ~Exists(World, last.ent)
    /\ \A t \in Types : Get(World, last.ent, t) = Undefined
    /\ \A ref \in DOMAIN indexBases :
         Range(ref) \subseteq HeldTypes => ~InIndex(ref, last.ent)

\* destroy has returned for an entity that held both types and had a record
\* in the index on both, which is now on that index's free list.
C5_Witness ==
  /\ Idle /\ last.op = "destroy" /\ last.err = ""
  /\ HeldTypes = Types
  /\ <<"A", "B">> \in DOMAIN indexBases
  /\ indexBases[<<"A", "B">>].freeISs # <<>>

\* C6: a free hook is called for an entity only when the entity has left the
\* live set, every per-type storage and every IndexBase; and a destroy(e)
\* that returns has called free exactly once on each component e held that
\* has a free hook, and on no other component of e.
C6_FreeAfterCleanup ==
  /\ (stack # <<>> /\ stack[Len(stack)].kind = "destroy"
        /\ stack[Len(stack)].c < Len(stack[Len(stack)].freeComponents))
       => Gone(stack[Len(stack)].entity)
  /\ (Idle /\ last.op = "destroy" /\ last.err = "") =>
       \A c \in Comps :
         Count(Hook("free", c, last.ent))
           = IF c \in last.held /\ c.free = "function" THEN 1 ELSE 0

\* destroy has returned for an entity that held two components with a free
\* hook and had a record in an index.
C6_Witness ==
  /\ Idle /\ last.op = "destroy" /\ last.err = ""
  /\ Cardinality({ c \in last.held : c.free = "function" }) = 2
  /\ \E ref \in DOMAIN indexBases : ref # <<>> /\ indexBases[ref].freeISs # <<>>

\* What is left to do for the calls in progress: it decreases with every
\* step they take.
Measure ==
  Len(stack)
    + 2 * Cardinality({ p \in (1 .. Len(stack)) \X (1 .. Cardinality(Comps)) :
                          /\ p[2] > stack[p[1]].c
                          /\ p[2] <= Len(stack[p[1]].freeComponents) })
    + 2 * Len(entities)
    + 3 * Cardinality({ p \in Types \X EntityIds : components[p[1]][p[2]] # Undefined })

\* C7: when free hooks call destroy again, every step of the calls in
\* progress decreases Measure, so the outer destroy ends; when it has
\* returned, every entity destroy was called for is dead and absent from
\* every storage and index, and the free hook of every component taken from
\* an entity was called exactly once.
C7_ReentrantDestroy ==
  /\ [](  (Idle /\ last.op = "destroy" /\ last.err = "") =>
            \A i \in 1 .. Len(log) :
              /\ log[i].hook = "destroy" => Gone(log[i].ent)
              /\ (log[i].hook = "removed" /\ log[i].comp.free = "function")
                   => Count(Hook("free", log[i].comp, log[i].ent)) = 1
              /\ log[i].hook = "free"
                   => /\ Count(log[i]) = 1
                      /\ Count(Hook("removed", log[i].comp, log[i].ent)) = 1 )
  /\ [][stack # <<>> => (Measure' < Measure /\ Measure' >= 0)]_vars

\* destroy(e) has returned after the free hook of e's component destroyed
\* another entity, whose free hook called destroy(e) again; nothing is left.
C7_Witness ==
  /\ Idle /\ last.op = "destroy" /\ last.err = ""
  /\ Count(Hook("destroy", Undefined, last.ent)) = 2
  /\ \E e \in EntityIds \ {last.ent}, c \in Comps : Count(Hook("free", c, e)) = 1
  /\ \E c \in Comps : Count(Hook("free", c, last.ent)) = 1
  /\ entities = <<>>

\* C8: when a free hook throws during destroy(e), no call remains in
\* progress (the error reached the caller), and e, like every entity destroy
\* was called for, is not alive, holds no component and has no record in any
\* IndexBase.
C8_ThrowingFree ==
  (last.op = "destroy" /\ last.err = "thrown by free") =>
    /\ Idle
    /\ Gone(last.ent)
    /\ \A i \in 1 .. Len(log) : log[i].hook = "destroy" => Gone(log[i].ent)

\* A free hook has thrown during the destroy of an entity that had a record
\* in an index on a component type.
C8_Witness ==
  /\ last.op = "destroy" /\ last.err = "thrown by free"
  /\ \E ref \in DOMAIN indexBases :
       /\ ref # <<>> /\ Range(ref) \subseteq HeldTypes
       /\ indexBases[ref].freeISs # <<>>

\* C9: emplace(e, c) on an entity that is not alive raises the dead-entity
\* error, calls no hook, and leaves the live set, the per-type storages and
\* the indexes as they were.
C9_DeadEntityEmplace ==
  [][(nOps' = nOps + 1 /\ last'.op = "emplace" /\ ~Exists(World, last'.ent))
       => /\ last'.err = "Cannot set component for dead entity"
          /\ log' = <<>>
          /\ UNCHANGED << entities, components, compKeys, indexBases,
                          indexesByComponent, indexByComponents >>]_vars

\* emplace was refused for a dead entity while an index on the component's
\* type exists and another entity is alive.
C9_Witness ==
  /\ last.op = "emplace" /\ last.err = "Cannot set component for dead entity"
  /\ entities # <<>>
  /\ \E ref \in DOMAIN indexBases : last.args[1].type \in Range(ref)

\* The argument list holds two components of one type.
SameTypeTwice(args) ==
  \E i, j \in 1 .. Len(args) : i # j /\ args[i].type = args[j].type

\* C10: create raises the duplicate-type error exactly when two of its
\* components have the same type; it then leaves create_typesP and
\* create_ecs empty, and a create() called next returns an entity that holds
\* no component.
C10_DuplicateCreate ==
  last.op = "create" =>
    /\ last.err = "Duplicate component type in World.create" <=> SameTypeTwice(last.args)
    /\ create_typesP = <<>> /\ create_ecs = <<>>
    /\ (last.prevErr = "Duplicate component type in World.create" /\ last.args = <<>>)
         => (last.err = "" /\ HeldBy(World, last.retEnt) = {})

\* create() has returned right after a create that raised the duplicate-type
\* error.
C10_Witness ==
  /\ last.op = "create" /\ last.err = "" /\ last.args = <<>>
  /\ last.prevErr = "Duplicate component type in World.create"

\* C11: index(spec) with two aliases of one component type raises
\* DuplicateComponentType, registers no IndexBase (the trie, indexesByComponent
\* and the IndexBase objects are as before), returns no iterator and leaves
\* the index_specs scratch buffer empty.
C11_IndexDuplicateTypes ==
  [][(nOps' = nOps + 1 /\ last'.op = "index" /\ SameTypeTwice(last'.spec))
       => /\ last'.err = "Duplicate component type in index"
          /\ index_specs' = <<>>
          /\ last'.it = 0
          /\ UNCHANGED << indexByComponents, indexesByComponent, indexBases,
                          iterators >>]_vars

C11_Witness ==
  /\ last.op = "index" /\ SameTypeTwice(last.spec)
  /\ last.err = "Duplicate component type in index"
  /\ \E ref \in DOMAIN indexBases : Range(ref) = { last.spec[1].type }

\* The component get(entity, type) returns in the current state.
GetNow(entity, type) == Get(World, entity, type)

\* C12: get, has and remove called with an entity that is not alive, with a
\* component type the entity holds no component of, or with a type that was
\* never registered return undefined, false and undefined, do not raise, and
\* change no storage and no index.
C12_MissingQueries ==
  [][(/\ nOps' = nOps + 1
      /\ last'.op \in {"get", "has", "remove"}
      /\ \/ ~Exists(World, last'.ent)
         \/ GetNow(last'.ent, last'.type) = Undefined
         \/ last'.type \notin Range(compKeys))
       => /\ last'.err = ""
          /\ last'.retComp = Undefined
          /\ last'.ret = FALSE
          /\ log' = <<>>
          /\ UNCHANGED << entities, components, compKeys, indexBases,
                          indexesByComponent, indexByComponents >>]_vars

C12_Witness ==
  /\ last.op = "remove" /\ last.type \notin Range(compKeys)
  /\ last.retComp = Undefined /\ last.err = ""
  /\ Exists(World, last.ent)
  /\ compKeys # <<>>

\* C13: remove(e, T) on an entity that holds a component of type T returns
\* that component instance, and the free hook of the component is not invoked.
C13_RemoveReturnsComponent ==
  \A c \in Comps :
    (last.op = "remove" /\ c \in last.held /\ c.type = last.type)
      => /\ last.retComp = c
         /\ last.err = ""
         /\ \A i \in 1 .. Len(log) : log[i].hook # "free"

C13_Witness ==
  /\ last.op = "remove"
  /\ \E c \in last.held : c.type = last.type /\ c.free = "function" /\ last.retComp = c
  /\ \E ref \in DOMAIN indexBases : last.type \in Range(ref)

\* The types of the components passed to the call.
ArgTypes(args) == { args[i].type : i \in 1 .. Len(args) }

\* C14: insert(e, ...components) on an entity that is alive leaves it alive
\* and, for every type not among the types of the components passed, get(e, T)
\* returns what it returned before the call.
C14_InsertKeepsOthers ==
  [][(nOps' = nOps + 1 /\ last'.op = "insert" /\ Exists(World, last'.ent))
       => /\ last'.ent \in Range(entities')
          /\ \A t \in Types \ ArgTypes(last'.args) :
               /\ components'[t][last'.ent] = components[t][last'.ent]
               /\ (t \in Range(compKeys') <=> t \in Range(compKeys))]_vars

C14_Witness ==
  /\ last.op = "insert" /\ last.args # <<>> /\ last.err = ""
  /\ \E c \in last.held : c.type \notin ArgTypes(last.args) /\ GetNow(last.ent, c.type) = c

\* The IndexBase the iterator iterators[i] is bound to.
BaseOf(i) == indexBases[iterators[i].indexBase]

\* The entities that have a record in the IndexBase ib.
Members(ib) == { e \in EntityIds : ib.entityISByEntity[e] # NoIS }

\* The component types an index spec names.
SpecTypes(spec) == { spec[k].type : k \in 1 .. Len(spec) }

\* How many times v occurs in the sequence s.
Occurrences(s, v) == Cardinality({ k \in 1 .. Len(s) : s[k] = v })

\* The step is a call of the method op of the iterator iterators[i].
IteratorStep(op, i) ==
  nOps' = nOps + 1 /\ last'.op = op /\ last'.it = i

\* C15: two index calls whose specs name the same set of component types
\* return iterators bound to the same IndexBase; an IndexBase is registered
\* once for its type set, and an index call on a registered type set keeps
\* the IndexBase with its records; a call of start, next, wasAddedTo or
\* wasRemovedFrom on one iterator leaves the cursor, the versions and the
\* exposed fields of every other iterator as they were.
C15_SharedIndexBase ==
  /\ [](\A i, j \in 1 .. Len(iterators) :
          SpecTypes(walks[i].spec) = SpecTypes(walks[j].spec)
            => iterators[i].indexBase = iterators[j].indexBase)
  /\ [](\A t \in Types, ref \in DOMAIN indexBases :
          Occurrences(indexesByComponent[t], ref) <= 1)
  /\ [][\A ref \in DOMAIN indexBases :
          (nOps' = nOps + 1 /\ last'.op = "index"
             /\ SpecTypes(last'.spec) = Range(ref) /\ last'.err = "")
            => indexBases'[ref] = IndexObserve(indexBases[ref])]_vars
  /\ [][\A i, j \in 1 .. Len(iterators) :
          ( /\ i # j
            /\ \E op \in {"start", "next", "wasAddedTo", "wasRemovedFrom"} :
                 IteratorStep(op, i) )
            => iterators'[j] = iterators[j]]_vars

C15_Witness ==
  /\ last.op = "next" /\ last.ret
  /\ \E j \in 1 .. Len(iterators) :
       /\ j # last.it
       /\ walks[j].spec # walks[last.it].spec
       /\ iterators[j].names # iterators[last.it].names
       /\ iterators[j].indexBase = iterators[last.it].indexBase
       /\ iterators[j].entity = NaN

\* The value of the property name of the iterator it.
PropOf(it, name) ==
  it.props[CHOOSE k \in 1 .. Len(it.names) : it.names[k] = name]

\* The component of type that the record of entity in the IndexBase ib holds.
RecordComp(ib, entity, type) ==
  SlotAt(ib.storage, ib.entityISByEntity[entity] + TypePos(ib.types, type) + 1)

C17_RemovalDuringWalk ==
  \A i \in 1 .. Len(iterators) :
    BaseOf(i).adds = walks[i].adds0
      => /\ \A e \in EntityIds : Occurrences(walks[i].yielded, EntSlot(e)) <= 1
         /\ (last.op = "next" /\ last.it = i /\ last.ret)
              => /\ iterators[i].entity.k = "e"
                 /\ iterators[i].entity.e \in Members(BaseOf(i))
         /\ (last.op = "next" /\ last.it = i /\ ~last.ret)
              => \A e \in Members(BaseOf(i)) : EntSlot(e) \in Range(walks[i].yielded)

\* The entity at the cursor was removed during the walk and next() then
\* yielded the entity after it.
C17_Witness ==
  /\ last.op = "next" /\ last.ret
  /\ BaseOf(last.it).adds = walks[last.it].adds0
  /\ BaseOf(last.it).removes > walks[last.it].removes0
  /\ Len(walks[last.it].yielded) = 2
  /\ walks[last.it].yielded[1].e \notin Members(BaseOf(last.it))

\* C18: a wasAddedTo() call that is not the first one on its iterator
\* returns true exactly when IndexBase.add was performed on the bound
\* IndexBase since the call before it on that iterator, whatever the other
\* iterators of the IndexBase were asked in between.
C18_WasAddedTo ==
  [][\A i \in 1 .. Len(iterators) :
       (IteratorStep("wasAddedTo", i) /\ walks[i].addedTo # <<>>)
         => (last'.ret <=> BaseOf(i).adds # walks[i].addsSeen)]_vars

\* The second call on an iterator returns true after another iterator of
\* the same IndexBase has seen the addition.
C18_Witness ==
  /\ last.op = "wasAddedTo" /\ last.ret
  /\ Len(walks[last.it].addedTo) = 2
  /\ \E j \in 1 .. Len(iterators) :
       /\ j # last.it
       /\ iterators[j].indexBase = iterators[last.it].indexBase
       /\ walks[j].addedTo = <<TRUE>>

C20_FirstCallFalse ==
  [][\A i \in 1 .. Len(iterators) :
       /\ (IteratorStep("wasAddedTo", i) /\ walks[i].addedTo = <<>>) => ~last'.ret
       /\ (IteratorStep("wasRemovedFrom", i) /\ walks[i].removedFrom = <<>>)
            => ~last'.ret]_vars

\* The aliases used in the index specs whose first character is "_".
UnderscoreAliases == { "_a" }

\* C21: for an alias that begins with "_", the aliased type is one of the
\* types of the IndexBase (an entity has a record only if it holds it), and
\* the iterator has no field of that name: the property reads undefined at
\* every point of a walk.
C21_UnderscoreAliasHidden ==
  \A i \in 1 .. Len(iterators) :
    \A k \in 1 .. Len(walks[i].spec) :
      walks[i].spec[k].name \in UnderscoreAliases
        => /\ walks[i].spec[k].type \in Range(BaseOf(i).types)
           /\ \A e \in Members(BaseOf(i)) :
                RecordComp(BaseOf(i), e, walks[i].spec[k].type) # UndefSlot
           /\ PropOf(iterators[i], walks[i].spec[k].name) = UndefSlot

\* k is a subsequence of q: q with zero or more elements deleted.
RECURSIVE IsSubsequence(_, _)
IsSubsequence(k, q) ==
  IF k = <<>> THEN TRUE
  ELSE IF q = <<>> THEN FALSE
  ELSE IF Head(k) = Head(q) THEN IsSubsequence(Tail(k), Tail(q))
  ELSE IsSubsequence(k, Tail(q))

\* s is in the order of the type names, without repetition.
StrictlySorted(s) == \A i \in 1 .. Len(s) - 1 : TypeRank(s[i]) < TypeRank(s[i + 1])

\* C22: in a walk reset(q); next()* of the iterator over a trie built with
\* setInTrie, q of distinct symbols: every value yielded is the value of a key
\* that is a subsequence of q, no value is yielded twice (so the walk ends
\* within as many calls as there are keys, plus one), and when next() returns
\* false the value of every key that is a subsequence of q (the empty key
\* included) has been yielded; for sorted keys and a sorted q these are the
\* keys whose symbols are a subset of the symbols of q.
C22_SubsequenceWalk ==
  trieWalk.seq \in Queries =>
  /\ \A i \in 1 .. Len(trieWalk.vals) :
       /\ trieWalk.vals[i] \in StoredKeys(trie)
       /\ IsSubsequence(trieWalk.vals[i], trieWalk.seq)
       /\ Occurrences(trieWalk.vals, trieWalk.vals[i]) = 1
  /\ Len(trieWalk.vals) <= Cardinality(StoredKeys(trie))
  /\ trieWalk.state = "done"
       => /\ Range(trieWalk.vals)
               = { k \in StoredKeys(trie) : IsSubsequence(k, trieWalk.seq) }
          /\ (StrictlySorted(trieWalk.seq)
                /\ \A k \in StoredKeys(trie) : StrictlySorted(k))
               => Range(trieWalk.vals)
                    = { k \in StoredKeys(trie) : Range(k) \subseteq Range(trieWalk.seq) }

\* A finished walk that yielded the empty key, a key of one symbol and a
\* key of two symbols that are not next to each other in the query, and left
\* out a key that is not a subsequence of the query.
C22_Witness ==
  /\ trieWalk.state = "done"
  /\ Len(trieWalk.seq) = 3
  /\ <<>> \in Range(trieWalk.vals)
  /\ << trieWalk.seq[1], trieWalk.seq[3] >> \in Range(trieWalk.vals)
  /\ \E k \in StoredKeys(trie) : k \notin Range(trieWalk.vals)

\* C24: World.view keeps one View per type tuple: two calls with the same
\* tuple return the same View, two calls with different tuples never do, and
\* the View returned for a tuple was built for the types of that tuple.
C24_OneViewPerTuple ==
  /\ \A p, q \in given : (p.types = q.types) <=> (p.view = q.view)
  /\ \A p \in given : views[p.view] = p.types

\* The entities alive that hold a component of every type of types.
Holders(types) ==
  { e \in Range(entities) :
      \A k \in 1 .. Len(types) : Get(World, e, types[k]) # Undefined }

\* C23: view(T0, ..., Tn).each(cb) with a callback that changes nothing
\* calls cb for entities that are alive and hold a component of every Ti
\* only, once each at most, with the entity and its components of the types
\* T0, ..., Tn in this order; it calls it for every such entity unless cb
\* returned false, and makes no call after cb returned false.
C23_ViewEach ==
  last.op = "each" =>
    LET asked == last.view[1].types
        stopAt == last.view[1].stopAt
        called == [i \in 1 .. Len(last.cbs) |-> last.cbs[i].entity]
    IN /\ \A i \in 1 .. Len(called) :
            /\ called[i] \in Holders(asked)
            /\ Occurrences(called, called[i]) = 1
            /\ last.cbs[i].comps
                 = [k \in 1 .. Len(asked) |-> Get(World, called[i], asked[k])]
       /\ stopAt > 0 => Len(called) <= stopAt
       /\ (stopAt = 0 \/ Len(called) < stopAt) => Range(called) = Holders(asked)

\* C25: when clear() has returned, no entity is alive (size() is 0), no
\* storage holds a component and no IndexBase has a record; no call lowers
\* the entity sequence, clear included, and an id create returns was never
\* returned by create before.
C25_Clear ==
  /\ []((Idle /\ last.op = "clear" /\ last.err = "")
         => /\ entities = <<>>
            /\ \A t \in ClassNames, e \in EntityIds : components[t][e] = Undefined
            /\ \A ref \in DOMAIN indexBases : Members(indexBases[ref]) = {})
  /\ [][/\ entitySequence' >= entitySequence
        /\ (nOps' = nOps + 1 /\ last'.op = "create" /\ last'.err = "")
             => last'.retEnt \notin issued]_vars

\* clear() has returned in a World where create had returned an id: it
\* called the free hook of a component, and an index has lost a record.
C25_Witness ==
  /\ Idle /\ last.op = "clear" /\ last.err = ""
  /\ issued # {}
  /\ entitySequence > 0
  /\ \E h \in Range(log) : h.hook = "free"
  /\ \E ref \in DOMAIN indexBases : indexBases[ref].freeISs # <<>>

\* What the World keeps about the entity e: whether it is alive, its
\* components, and its records in the indexes.
KeptAbout(e) ==
  [ alive |-> e \in Range(entities),
    comps |-> [t \in ClassNames |-> components[t][e]],
    records |-> [ref \in DOMAIN indexBases |-> indexBases[ref].entityISByEntity[e]] ]

\* C26: registerSingleton(c) returns with the singleton entity -2 alive and
\* getSingleton(type(c)) = c; after removeSingleton(T), getSingleton(T) is
\* undefined; removeSingleton while the singleton entity is not alive (as
\* before any registerSingleton) changes nothing in the World; both calls
\* leave every other entity as it was; create never returns -2.
C26_Singleton ==
  /\ [](/\ last.op = "registerSingleton"
            => /\ Idle /\ last.err = ""
               /\ Exists(World, singletonEntity)
               /\ GetSingleton(World, last.args[1].type) = last.args[1]
        /\ last.op = "removeSingleton"
            => /\ Idle /\ last.err = ""
               /\ GetSingleton(World, last.type) = Undefined)
  /\ [][/\ (nOps' = nOps + 1 /\ last'.op = "removeSingleton"
              /\ ~Exists(World, singletonEntity))
             => UNCHANGED << entitySequence, entities, components, compKeys,
                             indexesByComponent, indexByComponents, indexBases, views >>
        /\ (nOps' = nOps + 1 /\ last'.op \in {"registerSingleton", "removeSingleton"})
             => /\ entitySequence' = entitySequence
                /\ \A e \in EntityIds \ {singletonEntity} : KeptAbout(e)' = KeptAbout(e)
        /\ (nOps' = nOps + 1 /\ last'.op = "create")
             => last'.retEnt # singletonEntity]_vars

\* removeSingleton(T) has removed the component of type T that
\* registerSingleton had stored on the singleton entity, which stays alive.
C26_Witness ==
  /\ Idle /\ last.op = "removeSingleton"
  /\ Exists(World, singletonEntity)
  /\ \E h \in Range(log) :
       h.hook = "removed" /\ h.ent = singletonEntity /\ h.comp.type = last.type

\* The smallest positive integer that is not in the set taken.
SmallestNotIn(taken) ==
  CHOOSE n \in 1 .. (Cardinality(taken) + 1) :
    n \notin taken /\ \A m \in 1 .. (n - 1) : m \in taken

\* C27: as long as release has only been called with ids that were reserved
\* at the time, reserve() returns the smallest positive integer that is not
\* reserved.
C27_SmallestFree ==
  (pool.op = "reserve" /\ ~pool.misused)
    => pool.err = "" /\ pool.ret = SmallestNotIn(pool.before)

\* C28: reserve() returns neither 0 nor MAX, and what it returns is a
\* positive integer that is not reserved at the time of the call.
C28_ReserveFresh ==
  pool.op = "reserve"
    => /\ pool.err = ""
       /\ pool.ret # 0 /\ pool.ret # MAX_SAFE_INTEGER
       /\ pool.ret > 0
       /\ pool.ret \notin pool.before

\* The values the next n calls of reserve() return on the free list f.
RECURSIVE ReserveSeq(_, _)
ReserveSeq(f, n) ==
  IF n = 0 THEN <<>>
  ELSE LET r == IdPoolReserve(f)
       IN IF r.err # "" THEN << -1 >> ELSE << r.id >> \o ReserveSeq(r.free, n - 1)

\* C29: release(id) with an id that is not reserved changes nothing that
\* can be seen: the later calls of reserve() return what they would have
\* returned without it.
C29_ReleaseFreeNoOp ==
  [][(pool'.op = "release" /\ pool'.n = pool.n + 1
        /\ pool'.id \in 1 .. (MAX_SAFE_INTEGER - 1)
        /\ pool'.id \notin pool.reserved)
       => ReserveSeq(free', MAX_SAFE_INTEGER) = ReserveSeq(free, MAX_SAFE_INTEGER)]_vars

\* C30: add(v) returns the index it wrote, the size before the call, for
\* every 0 <= v < 560000 and throws for every v >= 560000; when it throws,
\* size, dense and sparse are as they were.
C30_AddCap ==
  [][(setLast'.op = "add" /\ setLast'.n = setLast.n + 1)
       => /\ (setLast'.value >= 0 /\ setLast'.value < 560000)
               => (setLast'.err = "" /\ setLast'.ret = size /\ size' = size + 1)
          /\ setLast'.value >= 560000 => setLast'.err # ""
          /\ setLast'.err # "" => UNCHANGED << size, dense, sparse >>]_vars

RecordOffsets(ib) ==
  { o \in 0 .. (Len(ib.storage) - 1) : o % (Len(ib.types) + 1) = 0 }

C34_WasChangedTwice ==
  [][\A i \in 1 .. Len(iterators) :
       (IteratorStep("wasChanged", i) /\ last.op = "wasChanged" /\ last.it = i)
         => ~last'.ret]_vars
\* The IndexBase ref before a step: new IndexBase(ref) if the step
\* registers it.
BaseBefore(ref) ==
  IF ref \in DOMAIN indexBases THEN indexBases[ref] ELSE NewIndexBase(ref)

\* The step calls observeAddVer (observeRemVer) on the IndexBase ref: an
\* iterator on it is built, or asked wasAddedTo (wasRemovedFrom), by itself
\* or in wasChanged.
ObservesAdd(ref) ==
  \E i \in 1 .. Len(iterators') :
    /\ iterators'[i].indexBase = ref
    /\ \/ i > Len(iterators)
       \/ Len(walks'[i].addedTo) > Len(walks[i].addedTo)

ObservesRem(ref) ==
  \E i \in 1 .. Len(iterators') :
    /\ iterators'[i].indexBase = ref
    /\ \/ i > Len(iterators)
       \/ Len(walks'[i].removedFrom) > Len(walks[i].removedFrom)

\* C35: addVer moves by one at the first add that follows a call of
\* observeAddVer and at no other time: however many adds are made between
\* two calls of observeAddVer it is one more at the second call if there was
\* an add and the same if there was none, and it never decreases.
\* addVerObserved tells whether no add was made since the last call of
\* observeAddVer. The same holds of remVer, remVerObserved and the removes.
C35_VersionSteps ==
  [][\A ref \in DOMAIN indexBases' :
       LET old == BaseBefore(ref)
           new == indexBases'[ref]
       IN /\ new.addVerObserved
               <=> (ObservesAdd(ref) \/ (old.addVerObserved /\ new.adds = old.adds))
          /\ new.addVer = old.addVer
                            + (IF old.addVerObserved /\ new.adds > old.adds THEN 1 ELSE 0)
          /\ new.remVerObserved
               <=> (ObservesRem(ref) \/ (old.remVerObserved /\ new.removes = old.removes))
          /\ new.remVer = old.remVer
                            + (IF old.remVerObserved /\ new.removes > old.removes THEN 1 ELSE 0)]_vars

\* An IndexBase whose addVer has moved twice, once for several adds made
\* between two calls of observeAddVer, and whose remVer has moved once.
C35_Witness ==
  \E ref \in DOMAIN indexBases :
    /\ indexBases[ref].addVer = 2
    /\ indexBases[ref].adds > indexBases[ref].addVer
    /\ ~indexBases[ref].addVerObserved
    /\ indexBases[ref].remVer = 1
\* s is the beginning of t.
IsPrefix(s, t) == Len(s) <= Len(t) /\ s = SubSeq(t, 1, Len(s))

\* What a walk of a new iterator yields on trie for the query seq.
FreshWalk(seq) == SubItWalk(NewSubIt, trie, seq).vals

\* C36: whatever the iterator was doing when reset(seq) was called (it was
\* new, in the middle of a walk or at the end of one, on a query that was
\* longer or shorter), the walk that follows yields what the walk of a new
\* iterator yields for seq on the same trie, value by value, and ends where
\* that walk ends.
C36_ResetAnywhere ==
  /\ IsPrefix(trieWalk.vals, FreshWalk(trieWalk.seq))
  /\ trieWalk.state = "done" => trieWalk.vals = FreshWalk(trieWalk.seq)

\* A walk that yielded two values or more and has ended, started by a reset
\* that cut a walk on a longer query while the iterator was two branches
\* down the trie.
C36_Witness ==
  /\ trieWalk.state = "done"
  /\ Len(trieWalk.vals) >= 2
  /\ trieWalk.cut.state = "walk"
  /\ trieWalk.cut.pathLen = 2
  /\ trieWalk.cut.len > Len(trieWalk.seq)

\* C37: the walk of the iterator yields the values foreachSubsequenceInTrie
\* calls found with on the same trie and query, in the same order: the walk
\* so far is the beginning of that list, the whole of it when next() has
\* returned false, and a found that returns false at its n-th call has been
\* called with the first n values of the walk.
C37_WalkIsForeach ==
  /\ IsPrefix(trieWalk.vals, ForeachSubsequenceInTrie(trie, trieWalk.seq, 0).vals)
  /\ trieWalk.state = "done"
       => trieWalk.vals = ForeachSubsequenceInTrie(trie, trieWalk.seq, 0).vals
  /\ \A n \in 1 .. Len(trieWalk.vals) :
       ForeachSubsequenceInTrie(trie, trieWalk.seq, n)
         = [vals |-> SubSeq(trieWalk.vals, 1, n), ret |-> "false"]

\* A finished walk on a query that has a symbol twice, in which a value was
\* yielded twice and a key of two symbols was reached.
C37_Witness ==
  /\ trieWalk.state = "done"
  /\ trieWalk.seq \in RepeatQueries
  /\ \E i, j \in 1 .. Len(trieWalk.vals) : i # j /\ trieWalk.vals[i] = trieWalk.vals[j]
  /\ \E i \in 1 .. Len(trieWalk.vals) : Len(trieWalk.vals[i]) = 2
\* C39: a create that raises the duplicate-type error leaves the World as it
\* was: the live entities (and so size()), the components stored for every
\* type and every IndexBase are the same after the call as before it.
C39_FailedCreateKeepsWorld ==
  [][(nOps' = nOps + 1 /\ last'.op = "create"
        /\ last'.err = "Duplicate component type in World.create")
       => UNCHANGED << entities, components, compKeys, indexBases >>]_vars
\* C40: with a tracker installed, entityAdded(e) is called once in a step in
\* which e becomes alive and in no other step, and entityRemoved(e) once in a
\* step in which e stops being alive and in no other (never for an entity
\* that is not alive), so that for each entity the calls alternate and begin
\* with entityAdded; the steps are those of create, insert, destroy, clear,
\* the singleton operations and the free hooks.
C40_TrackerFollowsLiveSet ==
  [][\A e \in EntityIds :
       /\ Occurrences(last'.tracked, [cb |-> "entityAdded", ent |-> e])
            = (IF e \in Range(entities') \ Range(entities) THEN 1 ELSE 0)
       /\ Occurrences(last'.tracked, [cb |-> "entityRemoved", ent |-> e])
            = (IF e \in Range(entities) \ Range(entities') THEN 1 ELSE 0)]_vars
\* The step is a public call of op on the World of the IdPool/SparseSet
\* variant.
OldStep(op) == oldLast'.n = oldLast.n + 1 /\ oldLast'.op = op

\* C31: every SparseSet.remove(v) call the World makes, on the set of the
\* live entities or on the set of a storage, is made on a set that has v;
\* so a destroy(e) of an entity that is not alive leaves size() as it was and
\* exists(e') as it was for every other entity.
C31_RemoveGated ==
  /\ [](\A i \in 1 .. Len(oldLast.removes) : oldLast.removes[i].had)
  /\ [][(OldStep("destroy") /\ ~OldExists(OldWorld, oldLast'.ent))
         => /\ OldSize(OldWorld)' = OldSize(OldWorld)
            /\ \A e \in OldIds \ {oldLast'.ent} :
                 OldExists(OldWorld, e)' = OldExists(OldWorld, e)]_vars
\* destroy(e) and remove(e, T) of the World of the IdPool/SparseSet variant
\* leave get(e', T') and has(e', T') as they were for every live entity e'
\* other than e and every type T'.
OldFrame ==
  [][(OldStep("destroy") \/ OldStep("remove"))
       => \A e \in OldIds \ {oldLast'.ent} :
            OldExists(OldWorld, e)
              => \A t \in Types :
                   /\ OldGet(OldWorld, e, t)' = OldGet(OldWorld, e, t)
                   /\ OldHas(OldWorld, e, t)' = OldHas(OldWorld, e, t)]_vars

\* The same of the World with the indexes, for the part of destroy(e) and
\* remove(e, T) that is run before a free hook is called.
NewFrame ==
  [][(nOps' = nOps + 1 /\ last'.op \in {"destroy", "remove"})
       => \A e \in EntityIds \ {last'.ent} :
            Exists(World, e)
              => \A t \in Types :
                   /\ Get(World, e, t)' = Get(World, e, t)
                   /\ Has(World, e, t)' = Has(World, e, t)]_vars

\* C38: in both variants of the World, destroy(e) and remove(e, T) leave the
\* components of every other live entity as they were: get(e', T') and
\* has(e', T') return after the call what they returned before it.
C38_OthersUntouched == OldFrame /\ NewFrame
====
